---- MODULE Spec2Model ----
(***************************************************************************)
(* A model of the website auditor: the category scorer (SpecScore), the    *)
(* recommendation synthesizer (SpecRecs) and the recommendation text       *)
(* lookup (SpecText) of the analyzers, ContentAnalyzer.analyze with the    *)
(* language-model findings merged in (SpecContent), the overall score      *)
(* app.calculate_overall_score (SpecOverall), the aggregator               *)
(* app.run_analysis with the page fetch (SpecRun), AIAnalyzer.analyze      *)
(* (SpecAi), ReportGenerator.generate (SpecReport),                        *)
(* PerformanceAnalyzer.analyze (SpecPerf), SEOAnalyzer.analyze (SpecSeo),  *)
(* the HTTPS and configuration checks of SecurityAnalyzer (SpecSecurity),  *)
(* AccessibilityAnalyzer.analyze (SpecAccessibility), the syllable count   *)
(* and the readability check of ContentAnalyzer (SpecSyllables,            *)
(* SpecReadability), the analyzers of the document on the tree they share  *)
(* (SpecShared), and the response-time and page-weight probes of           *)
(* PerformanceAnalyzer (SpecResponseTime, SpecWeight).                     *)
(*                                                                         *)
(* Conventions.                                                            *)
(*  - A Python dict with optional keys is a TLA+ function whose DOMAIN is  *)
(*    the set of keys present: a finding is [type |-> .., title |-> ..].   *)
(*  - An insertion-ordered dict of findings (category -> list) is a        *)
(*    sequence of entries [category |-> c, items |-> <<..>>] with pairwise *)
(*    distinct categories, in insertion order.                             *)
(*  - Titles and descriptions are strings; `x in title`, lower() and       *)
(*    split() are computed on their characters.                            *)
(*  - Weights are kept in hundredths (0.15 is 15), so that the weighted    *)
(*    average is an exact quotient Num/Den of integers.  Python computes   *)
(*    the quotient in binary floating point and then calls round(): away   *)
(*    from a tie the float error (about 1e-14) cannot change the nearest   *)
(*    integer; at an exact tie k + 1/2 the float quotient lands on either  *)
(*    side, so round() is modelled as returning either neighbour there.    *)
(*  - A call either returns a value or raises: Return(v) / Raise(e).       *)
(***************************************************************************)
EXTENDS Integers, Sequences, FiniteSets, TLC

VARIABLES
    pc,                \* position of the operation under study
    analyzer,          \* the analyzer whose method is applied
    findings,          \* the findings mapping of the analyzer
    category,          \* the category argument of _generate_recommendation_text
    finding,           \* the finding argument of _generate_recommendation_text
    result,            \* what the operation returned or raised
    page,              \* what ContentAnalyzer's checks observe of the document
    together_api_key,  \* ContentAnalyzer.together_api_key
    score,             \* the local score of ContentAnalyzer.analyze
    enabled,           \* run_analysis: the analyzers whose flag is set
    soup,              \* the document tree: the elements it holds
    analyzers_to_run,  \* run_analysis: the names of the analyzers constructed
    results,           \* run_analysis: results, name -> analysis result
    report,            \* run_analysis: the report generated
    ui,                \* what run_analysis has put on the page
    response,          \* what the network answers to the requests of the operation
    api_key            \* PerformanceAnalyzer.api_key

vars == <<pc, analyzer, findings, category, finding, result, page,
          together_api_key, score, enabled, soup, analyzers_to_run, results,
          report, ui, response, api_key>>

----------------------------------------------------------------------------
(* Bounds of the inputs.                                                   *)

\* categories present in a findings mapping given to _calculate_score
MaxScoreCats == 2
\* findings, over all categories, in a findings mapping given to _calculate_score
MaxScoreFindings == 3

\* categories in a findings mapping given to _generate_recommendations
MaxRecCats == 2
\* findings, over all categories, of pairwise distinct titles given to
\* _generate_recommendations
MaxRecFindings == 6
\* findings, over all categories, of possibly equal titles given to
\* _generate_recommendations
MaxDupFindings == 3

\* findings the language model returns, in all, to one analysis of
\* ContentAnalyzer
MaxAiFindings == 2

\* the per-analyzer scores given to calculate_overall_score are the
\* multiples of 100 / MaxScoreSteps, rounded down
MaxScoreSteps == 3

----------------------------------------------------------------------------
(* Python values.                                                          *)

None == "None"

\* {}
EmptyDict == [k \in {} |-> None]

Return(v) == [kind |-> "return", value |-> v]
Raise(e) == [kind |-> "raise", exc |-> e]

Range(s) == {s[i] : i \in DOMAIN s}

\* dict.get(key, default)
Get(d, key, default) == IF key \in DOMAIN d THEN d[key] ELSE default

Severities == {"success", "warning", "error"}

\* The analyzers whose _calculate_score, _generate_recommendations and
\* _generate_recommendation_text have the shared shape.
ScoringAnalyzers == {"SEO", "Performance", "Content", "Security", "Design & UX"}

\* The weight table of each analyzer's _calculate_score, in hundredths.
weights ==
    [a \in ScoringAnalyzers |->
        CASE a = "SEO" ->
               [c \in {"Meta Tags", "Headings", "Content", "Links", "Images", "Technical"} |->
                   CASE c = "Meta Tags" -> 20 [] c = "Headings" -> 15 [] c = "Content" -> 20
                     [] c = "Links" -> 15 [] c = "Images" -> 15 [] c = "Technical" -> 15]
          [] a = "Performance" ->
               [c \in {"Speed", "Resources", "Mobile", "Technical"} |->
                   CASE c = "Speed" -> 50 [] c = "Resources" -> 20
                     [] c = "Mobile" -> 20 [] c = "Technical" -> 10]
          [] a = "Content" ->
               [c \in {"Readability", "Content Quality", "Engagement", "SEO Content"} |->
                   CASE c = "Readability" -> 25 [] c = "Content Quality" -> 30
                     [] c = "Engagement" -> 25 [] c = "SEO Content" -> 20]
          [] a = "Security" ->
               [c \in {"HTTPS", "Headers", "Content", "Configuration"} |->
                   CASE c = "HTTPS" -> 40 [] c = "Headers" -> 30
                     [] c = "Content" -> 15 [] c = "Configuration" -> 15]
          [] a = "Design & UX" ->
               [c \in {"Layout", "Visual Design", "Navigation", "Mobile", "Branding"} |->
                   CASE c = "Layout" -> 20 [] c = "Visual Design" -> 25 [] c = "Navigation" -> 25
                     [] c = "Mobile" -> 20 [] c = "Branding" -> 10]]

\* weights.get(category, 0)
WeightOf(a, c) == Get(weights[a], c, 0)

----------------------------------------------------------------------------
(* The category scorer: <Analyzer>._calculate_score.                       *)

\* type_counts[t] after the counting loop over one category's items
TypeCount(items, t) ==
    Cardinality({j \in DOMAIN items : "type" \in DOMAIN items[j] /\ items[j]["type"] = t})

\* type_counts[item["type"]] += 1 raises KeyError for a type outside the table
CountRaises(items) ==
    \E j \in DOMAIN items : "type" \in DOMAIN items[j] /\ items[j]["type"] \notin Severities

\* a scorer for which a category without findings scores 0
category_score_empty_zero(items) ==
    IF items = <<>> THEN <<0, 1>>
    ELSE LET total_items == TypeCount(items, "success") + TypeCount(items, "warning")
                              + TypeCount(items, "error")
         IN  IF total_items = 0 THEN <<0, 1>>
             ELSE <<TypeCount(items, "success") * 100 + TypeCount(items, "warning") * 50,
                    total_items>>

\* category_scores[category] as an exact fraction <<numerator, denominator>>
category_score(items) ==
    IF items = <<>> THEN <<50, 1>>
    ELSE LET total_items == TypeCount(items, "success") + TypeCount(items, "warning")
                              + TypeCount(items, "error")
         IN  IF total_items = 0 THEN <<50, 1>>
             ELSE <<TypeCount(items, "success") * 100 + TypeCount(items, "warning") * 50,
                    total_items>>

\* a scorer that leaves the categories without findings out of the divisor
RECURSIVE total_weight_of_nonempty(_, _)
total_weight_of_nonempty(a, f) ==
    IF f = <<>> THEN 0
    ELSE (IF Head(f).items = <<>> THEN 0 ELSE WeightOf(a, Head(f).category))
           + total_weight_of_nonempty(a, Tail(f))

\* total_weight after the loop: the sum of weights.get(category, 0)
RECURSIVE total_weight(_, _)
total_weight(a, f) ==
    IF f = <<>> THEN 0 ELSE WeightOf(a, Head(f).category) + total_weight(a, Tail(f))

\* the product of the category scores' denominators
RECURSIVE ScoreDen(_)
ScoreDen(f) ==
    IF f = <<>> THEN 1 ELSE category_score(Head(f).items)[2] * ScoreDen(Tail(f))

\* weighted_sum * ScoreDen(f), an integer
RECURSIVE weighted_sum(_, _, _)
weighted_sum(a, f, den) ==
    IF f = <<>> THEN 0
    ELSE LET cs == category_score(Head(f).items)
         IN  cs[1] * (den \div cs[2]) * WeightOf(a, Head(f).category)
               + weighted_sum(a, Tail(f), den)

\* round(num / den) for num >= 0, den > 0: the nearest integer; at an exact
\* tie the float quotient decides, so both neighbours are possible outcomes.
round(num, den) ==
    {k \in (num \div den)..(num \div den + 1) :
        2 * (IF k * den >= num THEN k * den - num ELSE num - k * den) <= den}

\* a scorer without the default for a total weight of 0
_calculate_score_dividing(a, f) ==
    IF \E i \in DOMAIN f : CountRaises(f[i].items)
    THEN {Raise("KeyError")}
    ELSE IF total_weight(a, f) = 0
         THEN {Raise("ZeroDivisionError")}
         ELSE {Return(r) :
                 r \in round(weighted_sum(a, f, ScoreDen(f)), ScoreDen(f) * total_weight(a, f))}

\* The outcomes of _calculate_score(findings) of analyzer a.
_calculate_score(a, f) ==
    IF \E i \in DOMAIN f : CountRaises(f[i].items)
    THEN {Raise("KeyError")}
    ELSE IF total_weight(a, f) = 0
         THEN {Return(50)}
         ELSE {Return(r) :
                 r \in round(weighted_sum(a, f, ScoreDen(f)), ScoreDen(f) * total_weight(a, f))}

----------------------------------------------------------------------------
(* Python strings: TLC's Len, SubSeq and \o act on strings.                *)

\* pattern in text
In(pattern, text) ==
    \E i \in 1..(Len(text) - Len(pattern) + 1) :
        SubSeq(text, i, i + Len(pattern) - 1) = pattern

LowerChar(c) ==
    CASE c = "A" -> "a" [] c = "B" -> "b" [] c = "C" -> "c" [] c = "D" -> "d"
      [] c = "E" -> "e" [] c = "F" -> "f" [] c = "G" -> "g" [] c = "H" -> "h"
      [] c = "I" -> "i" [] c = "J" -> "j" [] c = "K" -> "k" [] c = "L" -> "l"
      [] c = "M" -> "m" [] c = "N" -> "n" [] c = "O" -> "o" [] c = "P" -> "p"
      [] c = "Q" -> "q" [] c = "R" -> "r" [] c = "S" -> "s" [] c = "T" -> "t"
      [] c = "U" -> "u" [] c = "V" -> "v" [] c = "W" -> "w" [] c = "X" -> "x"
      [] c = "Y" -> "y" [] c = "Z" -> "z" [] OTHER -> c

\* text.lower()
RECURSIVE lower(_)
lower(text) ==
    IF Len(text) = 0 THEN ""
    ELSE LowerChar(SubSeq(text, 1, 1)) \o lower(SubSeq(text, 2, Len(text)))

\* text.split(): the words that blanks separate, from position i on, cur
\* being the word begun
RECURSIVE SplitFrom(_, _, _)
SplitFrom(text, i, cur) ==
    IF i > Len(text) THEN (IF cur = "" THEN <<>> ELSE <<cur>>)
    ELSE IF SubSeq(text, i, i) = " "
         THEN (IF cur = "" THEN <<>> ELSE <<cur>>) \o SplitFrom(text, i + 1, "")
         ELSE SplitFrom(text, i + 1, cur \o SubSeq(text, i, i))

\* word in text.split()
WordIn(word, text) == word \in Range(SplitFrom(text, 1, ""))

----------------------------------------------------------------------------
(* Recommendation text: <Analyzer>._generate_recommendation_text.          *)
(* The canned texts are the source's ("->" stands for its arrow sign).     *)

\* SEOAnalyzer._generate_recommendation_text
SEOAnalyzer_generate_recommendation_text(cat, f) ==
    LET title == lower(Get(f, "title", ""))
    IN  IF In("missing title tag", title)
        THEN "Add a descriptive title tag that includes your main keyword. Keep it between 50-60 characters."
        ELSE IF In("title too short", title)
                  \/ In("title too long", title)
        THEN "Optimize your title tag length to be between 50-60 characters to ensure it displays properly in search results."
        ELSE IF In("missing meta description", title)
                  \/ In("meta description too short", title)
                  \/ In("meta description too long", title)
        THEN "Add a compelling meta description between 120-160 characters that includes your main keywords and encourages clicks."
        ELSE IF In("no h1 heading found", title)
                  \/ In("multiple h1 headings", title)
        THEN "Ensure your page has exactly one H1 heading that clearly describes the main topic and includes your primary keyword."
        ELSE IF In("heading levels skipped", title)
        THEN "Fix your heading structure to follow a logical hierarchy (H1 -> H2 -> H3) without skipping levels."
        ELSE IF In("thin content", title)
        THEN "Expand your content to at least 300 words with valuable information for users. More comprehensive content tends to rank better."
        ELSE IF In("images missing alt text", title)
        THEN "Add descriptive alt text to all images that explains what they show. Use your keywords naturally where appropriate."
        ELSE IF In("url structure issues", title)
        THEN "Improve your URL structure by using lowercase letters, hyphens instead of underscores, and including relevant keywords."
        ELSE IF In("missing viewport meta tag", title)
                  \/ In("incomplete viewport meta tag", title)
        THEN "Add a proper viewport meta tag: <meta name=\"viewport\" content=\"width=device-width, initial-scale=1\"> to make your page mobile-friendly."
        ELSE IF In("no internal links", title)
        THEN "Add internal links to other relevant pages on your site to improve site structure and help search engines discover and understand your content."
        ELSE IF In("non-descriptive link text", title)
        THEN "Replace generic link text like 'click here' or 'read more' with descriptive text that includes relevant keywords and clearly indicates the destination."
        ELSE IF Get(f, "type", None) = "error"
        THEN Get(f, "description", "Fix this critical SEO issue to improve your search engine rankings.")
        ELSE Get(f, "description", "Address this issue to enhance your SEO performance.")

\* PerformanceAnalyzer._generate_recommendation_text
PerformanceAnalyzer_generate_recommendation_text(cat, f) ==
    LET title == lower(Get(f, "title", ""))
    IN  IF In("response time", title) /\ In("slow", title)
        THEN "Improve server response time by upgrading hosting, implementing caching, or optimizing server-side code."
        ELSE IF In("page weight", title) /\ (In("heavy", title)
                  \/ In("very heavy", title))
        THEN "Reduce page weight by compressing images, minifying CSS/JS, and removing unnecessary resources."
        ELSE IF In("http/2 not detected", title)
        THEN "Upgrade your server to support HTTP/2 to improve loading performance through multiplexing and parallel downloads."
        ELSE IF In("no https", title)
        THEN "Implement HTTPS to improve security and performance. Many modern performance features require HTTPS."
        ELSE IF In("render-blocking resources", title)
        THEN "Eliminate render-blocking resources by moving critical CSS inline and deferring non-critical JavaScript."
        ELSE IF In("properly-sized images", title)
                  \/ In("responsive images", title)
        THEN "Serve properly sized images for each device to reduce wasted bytes and improve loading time."
        ELSE IF In("text compression", title)
        THEN "Enable GZIP or Brotli compression on your server to reduce transfer sizes of text-based resources."
        ELSE IF In("largest contentful paint", title)
                  \/ WordIn("lcp", title)
        THEN "Improve Largest Contentful Paint by optimizing the loading of your main content, reducing server response time, and prioritizing critical resources."
        ELSE IF In("cumulative layout shift", title)
                  \/ WordIn("cls", title)
        THEN "Reduce layout shifts by setting explicit width and height for images and videos, avoiding dynamically injected content, and using stable layouts."
        ELSE IF In("total blocking time", title)
                  \/ WordIn("tbt", title)
        THEN "Reduce Total Blocking Time by breaking up long tasks, optimizing JavaScript, and deferring non-critical JavaScript execution."
        ELSE IF Get(f, "type", None) = "error"
        THEN Get(f, "description", "Fix this critical performance issue to improve user experience.")
        ELSE Get(f, "description", "Address this issue to enhance website performance.")

\* SecurityAnalyzer._generate_recommendation_text
SecurityAnalyzer_generate_recommendation_text(cat, f) ==
    LET title == lower(Get(f, "title", ""))
    IN  IF In("https not implemented", title)
        THEN "Implement HTTPS encryption by obtaining an SSL/TLS certificate from a trusted CA and configuring your web server to use it."
        ELSE IF In("https implemented but without redirect", title)
        THEN "Configure your web server to redirect all HTTP traffic to HTTPS using a 301 redirect."
        ELSE IF In("ssl certificate expired", title)
                  \/ In("ssl certificate expiring soon", title)
        THEN "Renew your SSL/TLS certificate as soon as possible and set up automated renewal reminders."
        ELSE IF In("outdated ssl/tls version", title)
        THEN "Update your server configuration to use TLS 1.2 or 1.3 and disable older protocols (SSL 3.0, TLS 1.0, TLS 1.1)."
        ELSE IF In("missing http strict transport security", title)
        THEN "Implement HSTS by adding the 'Strict-Transport-Security' header with a value of 'max-age=31536000; includeSubDomains'."
        ELSE IF In("missing content security policy", title)
        THEN "Implement a Content Security Policy to prevent XSS attacks by adding the 'Content-Security-Policy' header with appropriate directives."
        ELSE IF In("missing x-content-type-options", title)
        THEN "Add the 'X-Content-Type-Options: nosniff' header to prevent MIME type sniffing."
        ELSE IF In("missing x-frame-options", title)
        THEN "Add the 'X-Frame-Options: DENY' header to prevent clickjacking attacks."
        ELSE IF In("information disclosure detected", title)
        THEN "Remove sensitive information such as server details, internal paths, and debug information from your HTML source and HTTP headers."
        ELSE IF In("potential form security issues", title)
        THEN "Ensure all forms use HTTPS, implement CSRF protection, and validate input on both client and server side."
        ELSE IF In("exposed git repository", title)
        THEN "Immediately restrict access to your .git directory by configuring your web server to deny access to these paths."
        ELSE IF In("directory listing enabled", title)
        THEN "Disable directory listing in your web server configuration to prevent exposure of file structures."
        ELSE IF Get(f, "type", None) = "error"
        THEN Get(f, "description", "Fix this critical security issue to protect your website and users.")
        ELSE Get(f, "description", "Address this security issue to improve your website's protection.")

\* DesignAnalyzer._generate_recommendation_text
DesignAnalyzer_generate_recommendation_text(cat, f) ==
    LET title == lower(Get(f, "title", ""))
    IN  IF In("not mobile-friendly", title)
        THEN "Add a viewport meta tag with content='width=device-width, initial-scale=1' to enable proper responsive behavior on mobile devices."
        ELSE IF In("poor page structure", title)
        THEN "Implement a clear page structure with header, main content, and footer sections using semantic HTML5 elements."
        ELSE IF In("limited content structure", title)
        THEN "Divide content into clear sections using semantic elements like <section>, <article>, and <aside> to improve scanability."
        ELSE IF In("many fixed-width elements", title)
        THEN "Replace fixed pixel widths with responsive units like percentages, rem, or em, and use CSS media queries for responsive layouts."
        ELSE IF In("navigation not clearly defined", title)
        THEN "Create a clear navigation element using the <nav> tag and organize links logically with proper hierarchy."
        ELSE IF In("too many navigation items", title)
        THEN "Simplify navigation by grouping related items into dropdown menus or moving less important links to the footer."
        ELSE IF In("typography issues detected", title)
        THEN "Improve typography by limiting fonts to 2-3 families, ensuring text is at least 16px, and setting line height to 1.5-1.6 for better readability."
        ELSE IF In("inconsistent color usage", title)
        THEN "Create a consistent color palette with 2-3 primary colors, 2-3 secondary colors, and appropriate accent colors for better visual harmony."
        ELSE IF In("inconsistent spacing", title)
        THEN "Implement a consistent spacing system using a base unit (like 8px or 1rem) and multiples of that unit for all margins and padding."
        ELSE IF In("poor image accessibility", title)
        THEN "Add descriptive alt text to all images to improve accessibility and SEO. Use empty alt text (alt=\"\") for decorative images."
        ELSE IF In("no clear call-to-actions", title)
                  \/ In("basic call-to-actions", title)
        THEN "Add prominent call-to-action buttons with clear hierarchy, using color contrast and positioning to guide users toward important actions."
        ELSE IF In("branding issues", title)
                  \/ In("limited branding", title)
        THEN "Strengthen branding with a prominent logo, favicon, consistent color scheme, and typography that reflects your brand identity."
        ELSE IF In("no footer found", title)
                  \/ In("basic footer", title)
        THEN "Implement a comprehensive footer with contact information, legal links (privacy policy, terms), social media links, and copyright notice."
        ELSE IF Get(f, "type", None) = "error"
        THEN Get(f, "description", "Fix this critical design issue to improve user experience.")
        ELSE Get(f, "description", "Address this design issue to enhance visual appeal and usability.")

\* ContentAnalyzer._generate_recommendation_text
ContentAnalyzer_generate_recommendation_text(cat, f) ==
    LET title == Get(f, "title", "")
        generic ==
            IF Get(f, "type", None) = "error"
            THEN Get(f, "description", "Fix this critical issue to improve content effectiveness.")
            ELSE Get(f, "description", "Address this issue to enhance content quality.")
    IN  IF cat = "Readability" /\ In("Readability: ", title)
        THEN IF In("Very difficult", title)
             THEN "Simplify your content by using shorter sentences and less complex vocabulary. Aim for shorter paragraphs and more straightforward explanations."
             ELSE IF In("Difficult", title)
             THEN "Make your content more accessible by reducing sentence length and using simpler words where possible."
             ELSE generic
        ELSE IF cat = "Content Quality" /\ In("Content too short", title)
        THEN "Expand your content with more detailed information, examples, and explanations to provide better value to users and improve search rankings."
        ELSE IF cat = "Readability" /\ In("paragraphs too long", lower(title))
        THEN "Break long paragraphs into smaller, more digestible chunks of 2-3 sentences each to improve readability and engagement."
        ELSE IF cat = "Engagement" /\ In("No clear call-to-actions", title)
        THEN "Add clear call-to-action buttons or links to guide users toward conversion goals such as signing up, purchasing, or contacting you."
        ELSE IF cat = "SEO Content" /\ In("No headings found", title)
        THEN "Add headings (H1, H2, H3) to structure your content, make it more scannable, and improve SEO."
        ELSE generic

\* self._generate_recommendation_text(category, finding) of analyzer a
_generate_recommendation_text(a, cat, f) ==
    CASE a = "SEO" -> SEOAnalyzer_generate_recommendation_text(cat, f)
      [] a = "Performance" -> PerformanceAnalyzer_generate_recommendation_text(cat, f)
      [] a = "Content" -> ContentAnalyzer_generate_recommendation_text(cat, f)
      [] a = "Security" -> SecurityAnalyzer_generate_recommendation_text(cat, f)
      [] a = "Design & UX" -> DesignAnalyzer_generate_recommendation_text(cat, f)

----------------------------------------------------------------------------
(* The recommendation synthesizer: <Analyzer>._generate_recommendations.   *)

\* the slice [:5] of the returned list
MaxRecommendations == 5

\* the sort key {"High": 0, "Medium": 1, "Low": 2}[x["priority"]]
PriorityRank(priority) ==
    CASE priority = "High" -> 0 [] priority = "Medium" -> 1 [] priority = "Low" -> 2

\* the inner loop of one pass over one category's items: a recommendation
\* for every item whose item.get("type") is severity
RECURSIVE PassItems(_, _, _, _, _, _)
PassItems(a, cat, items, severity, priority, defaultTitle) ==
    IF items = <<>> THEN <<>>
    ELSE (IF Get(Head(items), "type", None) = severity
          THEN <<[priority |-> priority,
                  category |-> cat,
                  title |-> Get(Head(items), "title", defaultTitle),
                  description |-> _generate_recommendation_text(a, cat, Head(items))]>>
          ELSE <<>>)
         \o PassItems(a, cat, Tail(items), severity, priority, defaultTitle)

\* one pass: for category, items in findings.items(): for item in items: ...
RECURSIVE Pass(_, _, _, _, _)
Pass(a, f, severity, priority, defaultTitle) ==
    IF f = <<>> THEN <<>>
    ELSE PassItems(a, Head(f).category, Head(f).items, severity, priority, defaultTitle)
         \o Pass(a, Tail(f), severity, priority, defaultTitle)

\* an unstable insertion: r goes before the elements of equal key
RECURSIVE InsertUnstable(_, _)
InsertUnstable(s, r) ==
    IF s = <<>> THEN <<r>>
    ELSE IF PriorityRank(Head(s).priority) < PriorityRank(r.priority)
         THEN <<Head(s)>> \o InsertUnstable(Tail(s), r)
         ELSE <<r>> \o s

\* r put into the sorted list s behind every element whose key is not larger
RECURSIVE InsertSorted(_, _)
InsertSorted(s, r) ==
    IF s = <<>> THEN <<r>>
    ELSE IF PriorityRank(Head(s).priority) <= PriorityRank(r.priority)
         THEN <<Head(s)>> \o InsertSorted(Tail(s), r)
         ELSE <<r>> \o s

\* sorted(recommendations, key=...): Python's sort is stable
RECURSIVE sorted(_)
sorted(recs) ==
    IF recs = <<>> THEN <<>>
    ELSE InsertSorted(sorted(SubSeq(recs, 1, Len(recs) - 1)), recs[Len(recs)])

\* a slice that keeps the whole list
SliceAll(s, n) == s

\* list[:n]
Slice(s, n) == SubSeq(s, 1, IF Len(s) < n THEN Len(s) ELSE n)

\* The list _generate_recommendations(findings) of analyzer a returns.
_generate_recommendations(a, f) ==
    LET recommendations ==
            Pass(a, f, "error", "High", "Fix issue")
              \o Pass(a, f, "warning", "Medium", "Improve aspect")
    IN  Slice(sorted(recommendations), MaxRecommendations)

----------------------------------------------------------------------------
(* Inputs of the category scorer.                                          *)

\* the categories of analyzer a in the order analyze() creates them, and one
\* category unknown to every weight table
CategoryOrder(a) ==
    CASE a = "SEO" -> <<"Meta Tags", "Headings", "Content", "Links", "Images", "Technical">>
      [] a = "Performance" -> <<"Speed", "Resources", "Mobile", "Technical">>
      [] a = "Content" -> <<"Readability", "Content Quality", "Engagement", "SEO Content">>
      [] a = "Security" -> <<"HTTPS", "Headers", "Content", "Configuration">>
      [] a = "Design & UX" -> <<"Layout", "Visual Design", "Navigation", "Mobile", "Branding">>

UnknownCategory == "Other"

AllCategories(a) == Append(CategoryOrder(a), UnknownCategory)

\* the subsequence of cats whose members are in S
RECURSIVE Restrict(_, _)
Restrict(cats, S) ==
    IF cats = <<>> THEN <<>>
    ELSE IF Head(cats) \in S THEN <<Head(cats)>> \o Restrict(Tail(cats), S)
         ELSE Restrict(Tail(cats), S)

\* the ways to cut a list of m findings into n consecutive parts: the end
\* positions of the first n - 1 parts
Cuts(m, n) == {c \in [1..(n - 1) -> 0..m] : \A i \in 1..(n - 2) : c[i] <= c[i + 1]}

\* the dict whose keys are cats, in that order, the findings of flat being
\* dealt to them in order, cut at c
Distribute(cats, flat, c) ==
    [i \in 1..Len(cats) |->
        [category |-> cats[i],
         items |-> SubSeq(flat, (IF i = 1 THEN 0 ELSE c[i - 1]) + 1,
                                IF i = Len(cats) THEN Len(flat) ELSE c[i])]]

\* the dicts whose keys are cats, in that order, holding m findings of F
Mappings(cats, F, m) ==
    IF cats = <<>> THEN (IF m = 0 THEN {<<>>} ELSE {})
    ELSE {Distribute(cats, flat, c) : flat \in [1..m -> F], c \in Cuts(m, Len(cats))}

\* a finding as a check builds it
Finding(type, title, description) ==
    [type |-> type, title |-> title, description |-> description]

ScoreFindings == {Finding(t, "Check", "checked") : t \in Severities}

\* the sets of at most MaxScoreCats categories, known to the analyzer's
\* weight table or not
ScoreCategorySets(a) ==
    {S \in SUBSET Range(AllCategories(a)) : Cardinality(S) <= MaxScoreCats}

\* every findings mapping over the categories C with m findings
ScoreInputs(a, C, m) == Mappings(Restrict(AllCategories(a), C), ScoreFindings, m)

NoResult == [kind |-> "none"]

\* the variables of ContentAnalyzer.analyze, outside it
NoContentAnalysis ==
    /\ page = None
    /\ together_api_key = None
    /\ score = None

\* the variables of run_analysis, outside it
NoRun ==
    /\ enabled = {}
    /\ soup = {}
    /\ analyzers_to_run = <<>>
    /\ results = EmptyDict
    /\ report = None
    /\ ui = {}

contentVars == <<page, together_api_key, score>>
runVars == <<enabled, soup, analyzers_to_run, results, report, ui>>

----------------------------------------------------------------------------
(* SpecScore: _calculate_score applied to every bounded findings mapping.  *)

InitScore ==
    /\ pc = "score"
    /\ analyzer \in ScoringAnalyzers
    /\ \E C \in ScoreCategorySets(analyzer), m \in 0..MaxScoreFindings :
           findings \in ScoreInputs(analyzer, C, m)
    /\ category = None
    /\ finding = None
    /\ result = NoResult
    /\ NoContentAnalysis
    /\ NoRun
    /\ response = None
    /\ api_key = None

CalculateScore ==
    /\ pc = "score"
    /\ result' \in _calculate_score(analyzer, findings)
    /\ pc' = "scored"
    /\ UNCHANGED <<api_key, response, analyzer, findings, category, finding, contentVars, runVars>>

NextScore == CalculateScore

SpecScore == InitScore /\ [][NextScore]_vars

\* C1: for every findings mapping (any categories, known to the weight
\* table or not, any number of findings of severity success, warning or
\* error), _calculate_score returns an integer in 0..100.
C1_ScoreInRange ==
    pc = "scored" => result.kind = "return" /\ result.value \in 0..100

\* a score other than 0, 50 and 100 was returned for a mapping with findings
\* under a weighted category and under a category of weight 0
C1_Witness ==
    /\ pc = "scored"
    /\ result.kind = "return"
    /\ result.value \in 0..100 \ {0, 50, 100}
    /\ \E i, j \in DOMAIN findings :
          /\ findings[i].category = UnknownCategory
          /\ findings[i].items # <<>>
          /\ WeightOf(analyzer, findings[j].category) > 0
          /\ Len(findings[j].items) >= 2

----------------------------------------------------------------------------
(* Inputs of the recommendation synthesizer.                               *)

Digit == <<"1", "2", "3", "4", "5", "6", "7", "8", "9">>

\* the items with the title of item i of category number c: "Issue c.i"
RetitleItems(items, c) ==
    [i \in DOMAIN items |->
        [items[i] EXCEPT !["title"] = "Issue " \o Digit[c] \o "." \o Digit[i]]]

\* the mapping with every finding given a title of its own
Retitle(f) ==
    [c \in DOMAIN f |-> [category |-> f[c].category, items |-> RetitleItems(f[c].items, c)]]

\* findings that may share a title, as the findings the language model
\* returns may, among themselves and with those of the built-in checks
DupFindings ==
    {Finding(t, title, "checked") :
        t \in Severities, title \in {"Content too short", "Weak introduction"}}

\* the first MaxRecCats categories of analyzer a, as analyze() creates them
RecCategories(a) == SubSeq(CategoryOrder(a), 1, MaxRecCats)

\* findings that call for a recommendation
IssueFindings == {Finding(t, "Check", "checked") : t \in {"error", "warning"}}

\* the findings mappings given to _generate_recommendations: m error and
\* warning findings of pairwise distinct titles
DistinctInputs(a, m) ==
    {Retitle(f) : f \in Mappings(RecCategories(a), IssueFindings, m)}

\* the findings mappings given to ContentAnalyzer._generate_recommendations
\* after the language model's findings were merged: m findings of any
\* severity and of two titles
DupInputs(m) == Mappings(RecCategories("Content"), DupFindings, m)

----------------------------------------------------------------------------
(* SpecRecs: _generate_recommendations applied to bounded findings.        *)

InitRecs ==
    /\ pc = "recommend"
    /\ analyzer \in ScoringAnalyzers
    /\ \/ \E m \in 0..MaxRecFindings : findings \in DistinctInputs(analyzer, m)
       \/ /\ analyzer = "Content"
          /\ \E m \in 0..MaxDupFindings : findings \in DupInputs(m)
    /\ category = None
    /\ finding = None
    /\ result = NoResult
    /\ NoContentAnalysis
    /\ NoRun
    /\ response = None
    /\ api_key = None

GenerateRecommendations ==
    /\ pc = "recommend"
    /\ result' = Return(_generate_recommendations(analyzer, findings))
    /\ pc' = "recommended"
    /\ UNCHANGED <<api_key, response, analyzer, findings, category, finding, contentVars, runVars>>

NextRecs == GenerateRecommendations

SpecRecs == InitRecs /\ [][NextRecs]_vars

\* the findings of severity t under one category, in list order, each as
\* <<category, title>>
RECURSIVE DiscoveredIn(_, _, _)
DiscoveredIn(cat, items, t) ==
    IF items = <<>> THEN <<>>
    ELSE (IF Head(items).type = t THEN <<<<cat, Head(items).title>>>> ELSE <<>>)
         \o DiscoveredIn(cat, Tail(items), t)

\* the findings of severity t in the order they were discovered: category by
\* category, finding by finding
RECURSIVE Discovered(_, _)
Discovered(f, t) ==
    IF f = <<>> THEN <<>>
    ELSE DiscoveredIn(Head(f).category, Head(f).items, t) \o Discovered(Tail(f), t)

\* the recommendations of priority p, in list order, each as <<category, title>>
RECURSIVE Recommended(_, _)
Recommended(recs, p) ==
    IF recs = <<>> THEN <<>>
    ELSE (IF Head(recs).priority = p
          THEN <<<<Head(recs).category, Head(recs).title>>>> ELSE <<>>)
         \o Recommended(Tail(recs), p)

\* s is t with some elements left out
RECURSIVE IsSubsequence(_, _)
IsSubsequence(s, t) ==
    IF s = <<>> THEN TRUE
    ELSE IF t = <<>> THEN FALSE
    ELSE IF Head(s) = Head(t) THEN IsSubsequence(Tail(s), Tail(t))
    ELSE IsSubsequence(s, Tail(t))

\* C5: in the list _generate_recommendations returns, every High
\* recommendation (from an error finding) precedes every Medium one (from a
\* warning finding), and within each priority the recommendations keep the
\* category-then-finding order of the findings.
C5_HighFirstInDiscoveryOrder ==
    pc = "recommended" =>
        LET recs == result.value
        IN  /\ \A i, j \in DOMAIN recs :
                  recs[i].priority = "Medium" /\ recs[j].priority = "High" => j < i
            /\ \A i \in DOMAIN recs : recs[i].priority \in {"High", "Medium"}
            /\ IsSubsequence(Recommended(recs, "High"), Discovered(findings, "error"))
            /\ IsSubsequence(Recommended(recs, "Medium"), Discovered(findings, "warning"))

\* a warning was discovered before errors of two categories, and the list
\* holds two High recommendations and a Medium one
C5_Witness ==
    /\ pc = "recommended"
    /\ Len(findings) >= 2
    /\ findings[1].items # <<>>
    /\ findings[1].items[1].type = "warning"
    /\ \E i \in DOMAIN findings[1].items : findings[1].items[i].type = "error"
    /\ \E i \in DOMAIN findings[2].items : findings[2].items[i].type = "error"
    /\ Len(Recommended(result.value, "High")) >= 2
    /\ Len(Recommended(result.value, "Medium")) >= 1

\* C6: the recommendations list never contains two recommendations with the
\* same title; of several error or warning findings with one title only the
\* first yields a recommendation.
C6_TitlesDistinct ==
    pc = "recommended" =>
        \A i, j \in DOMAIN result.value :
            i # j => result.value[i].title # result.value[j].title

\* C7: the list _generate_recommendations returns has at most 5 entries and
\* is the prefix of the priority-ordered list (the recommendations of the
\* errors, then those of the warnings): a Medium recommendation is present
\* only if every error finding has its High recommendation present.
C7_PrefixOfAtMostFive ==
    pc = "recommended" =>
        LET recs == result.value
            all == Discovered(findings, "error") \o Discovered(findings, "warning")
        IN  /\ Len(recs) <= 5
            /\ Len(recs) <= Len(all)
            /\ \A i \in DOMAIN recs : <<recs[i].category, recs[i].title>> = all[i]
            /\ (\E i \in DOMAIN recs : recs[i].priority = "Medium")
                   => Len(Recommended(recs, "High")) = Len(Discovered(findings, "error"))

\* more than five error and warning findings, fewer than five of them errors:
\* the list was cut at five and holds a Medium recommendation
C7_Witness ==
    /\ pc = "recommended"
    /\ Len(Discovered(findings, "error")) + Len(Discovered(findings, "warning")) > 5
    /\ Len(Discovered(findings, "error")) \in 1..4
    /\ Len(result.value) = 5
    /\ \E i \in DOMAIN result.value : result.value[i].priority = "Medium"

----------------------------------------------------------------------------
(* ContentAnalyzer's checks.  A page is what the checks observe of the     *)
(* document: for each check, the branch its measurements select.  The      *)
(* numbers in the descriptions are those of one such document.             *)

\* ContentAnalyzer._check_readability
_check_readability(p) ==
    IF p.content = "none"
    THEN Finding("error", "No readable content found",
                 "No readable text content was found on the page.")
    ELSE Finding(CASE p.readability = "Very difficult" -> "error"
                   [] p.readability \in {"Difficult", "Fairly difficult"} -> "warning"
                   [] OTHER -> "success",
                 "Readability: " \o p.readability,
                 "The content has a Flesch Reading Ease score of " \o p.flesch \o ". "
                   \o "Average sentences have 21.4 words. "
                   \o "Average words have 1.6 syllables.")

\* ContentAnalyzer._check_content_length
_check_content_length(p) ==
    CASE p.content \in {"none", "short"} ->
           Finding("error", "Content too short",
                   "The page has only approximately " \o ToString(p.word_count) \o " words. "
                     \o "Search engines typically prefer content with 300+ words for most pages.")
      [] p.content = "medium" ->
           Finding("warning", "Content could be more comprehensive",
                   "The page has approximately " \o ToString(p.word_count) \o " words. "
                     \o "For many topics, 600+ words may provide better depth and SEO value.")
      [] p.content = "long" ->
           Finding("success", "Good content length",
                   "The page has approximately " \o ToString(p.word_count) \o " words, "
                     \o "which is a good length for most web pages.")

\* ContentAnalyzer._check_paragraph_structure
_check_paragraph_structure(p) ==
    CASE p.paragraphs = "none" ->
           Finding("warning", "No paragraph tags found",
                   "The page does not use <p> tags for paragraphs, which can affect readability and SEO.")
      [] p.paragraphs = "empty" ->
           Finding("warning", "Empty paragraph tags",
                   "The page has paragraph tags but they appear to be empty.")
      [] p.paragraphs = "long" ->
           Finding("warning", "Paragraphs too long",
                   "The average paragraph length is 412 characters. "
                     \o "60% of paragraphs are over 300 characters. "
                     \o "Consider breaking long paragraphs into smaller, more digestible chunks.")
      [] p.paragraphs = "good" ->
           Finding("success", "Good paragraph structure",
                   "The page has 12 paragraphs with an average length of "
                     \o "140 characters, which is good for readability.")

\* ContentAnalyzer._check_heading_content_ratio
_check_heading_content_ratio(p) ==
    IF p.headings = "none"
    THEN Finding("warning", "No headings found",
                 "The page does not use heading tags (h1-h6), which are important for structure and SEO.")
    ELSE IF p.paragraphs = "none"
    THEN Finding("warning", "No paragraphs found",
                 "The page does not use paragraph tags, which makes it difficult to analyze content structure.")
    ELSE
    CASE p.headings = "few" ->
           Finding("warning", "Too few headings",
                   "The page has only 1 headings for 12 paragraphs. "
                     \o "Consider adding more headings to break up content and improve readability.")
      [] p.headings = "many" ->
           Finding("warning", "Too many headings",
                   "The page has 9 headings for 12 paragraphs. "
                     \o "Too many headings might fragment content too much.")
      [] p.headings = "good" ->
           Finding("success", "Good heading-to-content ratio",
                   "The page has a good balance of 3 headings for 12 paragraphs.")

\* ContentAnalyzer._check_thin_content
_check_thin_content(p) ==
    CASE p.sections = "thin" ->
           Finding("warning", "Thin content sections detected",
                   "Found 2 sections with less than 50 words each. "
                     \o "Consider expanding these sections with more detailed content.")
      [] p.sections = "good" ->
           Finding("success", "Content sections have adequate depth",
                   "The page has 3 content sections with good content depth.")
      [] p.sections = "none" ->
           Finding("warning", "Content structure unclear",
                   "Unable to identify clear content sections. Consider using heading tags to structure content.")

\* ContentAnalyzer._check_formatting_variety
_check_formatting_variety(p) ==
    CASE p.formatting = "little" ->
           Finding("warning", "Limited content formatting",
                   "The page uses very little formatting (1 formatting elements found). "
                     \o "Consider adding more bold text, lists, images, etc. to improve readability and engagement.")
      [] p.formatting = "uniform" ->
           Finding("warning", "Limited formatting variety",
                   "The page only uses 2 types of formatting elements. "
                     \o "Consider using more varied formatting (bold, lists, images, tables, etc.)")
      [] p.formatting = "varied" ->
           Finding("success", "Good formatting variety",
                   "The page uses 4 different types of formatting elements "
                     \o "(15 total formatting elements), which helps with readability and engagement.")

\* ContentAnalyzer._check_call_to_actions
_check_call_to_actions(p) ==
    CASE p.ctas = "none" ->
           Finding("warning", "No clear call-to-actions found",
                   "The page doesn't appear to have clear call-to-action elements, which are important for user engagement and conversion.")
      [] p.ctas = "many" ->
           Finding("warning", "Too many call-to-actions",
                   "The page has 8 potential call-to-action elements, which might overwhelm users.")
      [] p.ctas = "some" ->
           Finding("success", "Good call-to-action presence",
                   "The page has 2 clear call-to-action elements, which is good for user engagement.")

\* a page without text, a well-made article, and a long unbroken text
ContentPages ==
    { [content |-> "none", word_count |-> 0, readability |-> "Very difficult",
       flesch |-> "0.0", paragraphs |-> "none", headings |-> "none",
       sections |-> "none", formatting |-> "little", ctas |-> "none"],
      [content |-> "long", word_count |-> 1250, readability |-> "Standard",
       flesch |-> "64.2", paragraphs |-> "good", headings |-> "good",
       sections |-> "good", formatting |-> "varied", ctas |-> "some"],
      [content |-> "medium", word_count |-> 480, readability |-> "Difficult",
       flesch |-> "41.7", paragraphs |-> "long", headings |-> "few",
       sections |-> "thin", formatting |-> "uniform", ctas |-> "many"] }

\* findings after the seven checks of ContentAnalyzer.analyze
ContentCheckFindings(p) ==
    << [category |-> "Readability", items |-> <<_check_readability(p)>>],
       [category |-> "Content Quality",
        items |-> <<_check_content_length(p), _check_paragraph_structure(p)>>],
       [category |-> "Engagement",
        items |-> <<_check_formatting_variety(p), _check_call_to_actions(p)>>],
       [category |-> "SEO Content",
        items |-> <<_check_heading_content_ratio(p), _check_thin_content(p)>>] >>

----------------------------------------------------------------------------
(* Inputs of _generate_recommendation_text: the error and warning findings *)
(* _generate_recommendations passes to it, each with its category.         *)

Call(cat, f) == [category |-> cat, finding |-> f]

\* the error and warning findings of a findings mapping, with their categories
IssuesOf(f) ==
    UNION {{Call(f[c].category, item) :
              item \in {x \in Range(f[c].items) : x.type \in {"error", "warning"}}} :
           c \in DOMAIN f}

\* error and warning findings as the checks of analyzer a build them
CheckFindings(a) ==
    CASE a = "SEO" ->
           { Call("Meta Tags", Finding("error", "Missing title tag",
                 "Your page doesn't have a title tag, which is crucial for SEO.")),
             Call("Technical", Finding("warning", "No canonical tag",
                 "Your page doesn't have a canonical tag, which helps prevent duplicate content issues.")),
             Call("Headings", Finding("warning", "Heading levels skipped",
                 "Your page skips from h1 to h3. Headings should follow a logical hierarchy.")),
             Call("Links", Finding("warning", "No links found",
                 "Your page doesn't have any links, which may limit its connectivity to other pages.")) }
      [] a = "Performance" ->
           { Call("Speed", Finding("error", "Slow response time: 3.20s",
                 "The server responded in 3.20 seconds, which is too slow.")),
             Call("Speed", Finding("error", "Request timed out",
                 "The server took too long to respond (more than 10 seconds).")),
             Call("Resources", Finding("error", "Very heavy page: 5200KB",
                 "The page uses approximately 5200KB across at least 84 resources, which is too heavy.")),
             Call("Technical", Finding("warning", "HTTP/2 not detected",
                 "The website appears to use HTTP/1.1. Upgrading to HTTP/2 could improve performance.")) }
      [] a = "Content" -> UNION {IssuesOf(ContentCheckFindings(p)) : p \in ContentPages}
      [] a = "Security" ->
           { Call("HTTPS", Finding("error", "HTTPS not implemented",
                 "The website does not use HTTPS encryption, which puts user data at risk.")),
             Call("HTTPS", Finding("error", "No SSL/TLS",
                 "The website does not use SSL/TLS encryption.")),
             Call("Headers", Finding("warning", "Missing X-Content-Type-Options",
                 "Prevents MIME type sniffing. Recommended value: nosniff")),
             Call("Configuration", Finding("warning", "No security.txt file",
                 "The website doesn't have a security.txt file for vulnerability disclosure.")) }
      [] a = "Design & UX" ->
           { Call("Mobile", Finding("error", "Not mobile-friendly",
                 "The page doesn't have a viewport meta tag, which is essential for responsive design.")),
             Call("Mobile", Finding("warning", "Incomplete responsive setup",
                 "The viewport meta tag doesn't include 'width=device-width', which helps adapt to different screen sizes.")),
             Call("Navigation", Finding("warning", "Navigation not clearly defined",
                 "Could not identify a clear navigation element, which may make the site difficult to explore.")),
             Call("Layout", Finding("warning", "Poor page structure",
                 "The page lacks clear structural elements (header, main content, footer), which can confuse users.")) }

\* a dict with the keys whose value is given (not None)
Dict(type, title, description) ==
    [k \in {k \in {"type", "title", "description"} :
              (CASE k = "type" -> type [] k = "title" -> title [] k = "description" -> description)
                 # None} |->
        CASE k = "type" -> type [] k = "title" -> title [] k = "description" -> description]

\* audit_id.replace("-", " ").title() for the audits modelled
AuditIdTitle(audit_id) ==
    CASE audit_id = "unminified-css" -> "Unminified Css"
      [] audit_id = "render-blocking-resources" -> "Render Blocking Resources"

\* audits of a PageSpeed response with a score below 1: the title, the
\* description and the savings (details.overallSavingsMs) may each be absent
Audits ==
    {[audit_id |-> id] @@ title @@ description @@ savings :
        id \in {"unminified-css", "render-blocking-resources"},
        title \in {EmptyDict, [title |-> "Improve resource loading"]},
        description \in {EmptyDict,
                         [description |-> "Resources are blocking the first paint of your page."]},
        savings \in {EmptyDict, [overallSavingsMs |-> 150]}}

\* the finding PerformanceAnalyzer._extract_opportunities appends for an audit
Opportunity(audit) ==
    LET savings_text ==
            IF "overallSavingsMs" \in DOMAIN audit
            THEN " Potential savings: " \o ToString(audit.overallSavingsMs) \o "ms."
            ELSE ""
    IN  Finding("warning",
                Get(audit, "title", AuditIdTitle(audit.audit_id)),
                Get(audit, "description", "") \o savings_text)

\* error and warning findings the language model may return to
\* ContentAnalyzer: the title and the description may be absent or empty
AiIssueFindings ==
    {Dict(t, title, d) :
        t \in {"error", "warning"},
        title \in {None, "Weak introduction"},
        d \in {None, "", "The opening does not state the topic."}}

\* the categories ContentAnalyzer asks the language model for
AiCategories == <<"Content Quality", "Engagement", "Readability">>

\* the calls _generate_recommendations of analyzer a makes
TextCalls(a) ==
    CheckFindings(a)
      \cup (IF a = "Performance"
            THEN {Call("Resources", Opportunity(audit)) : audit \in Audits} ELSE {})
      \cup (IF a = "Content"
            THEN {Call(c, f) : c \in Range(AiCategories), f \in AiIssueFindings} ELSE {})

----------------------------------------------------------------------------
(* SpecText: _generate_recommendation_text applied to the findings.        *)

InitText ==
    /\ pc = "text"
    /\ analyzer \in ScoringAnalyzers
    /\ \E call \in TextCalls(analyzer) :
          /\ category = call.category
          /\ finding = call.finding
    /\ findings = <<>>
    /\ result = NoResult
    /\ NoContentAnalysis
    /\ NoRun
    /\ response = None
    /\ api_key = None

GenerateRecommendationText ==
    /\ pc = "text"
    /\ result' = Return(_generate_recommendation_text(analyzer, category, finding))
    /\ pc' = "texted"
    /\ UNCHANGED <<api_key, response, analyzer, findings, category, finding, contentVars, runVars>>

NextText == GenerateRecommendationText

SpecText == InitText /\ [][NextText]_vars

\* C8: for every finding passed to _generate_recommendation_text (matching
\* a canned template or not, with or without a description, with an empty
\* description) the function returns a non-empty string.
C8_TextNonEmpty ==
    pc = "texted" => result.kind = "return" /\ result.value # ""

----------------------------------------------------------------------------
(* ContentAnalyzer.analyze with the language model.                        *)

\* a severity outside success, warning, error
UnknownSeverity == "info"

\* findings the language model may return: the type may be one of the three
\* severities, another word, or absent
AiFindings ==
    {Dict(t, "Weak introduction", "The opening does not state the topic.") :
        t \in Severities \cup {UnknownSeverity, None}}

\* what _analyze_with_ai returns when the request fails, the status is not
\* 200 or the text is not JSON
AiUnavailable(description) ==
    << [category |-> "Content Quality",
        items |-> <<Finding("warning", "AI analysis unavailable", description)>>],
       [category |-> "Engagement", items |-> <<>>],
       [category |-> "Readability", items |-> <<>>] >>

\* the validation loop: every valid category absent from ai_analysis is
\* added with an empty list
RECURSIVE WithValidCategories(_, _)
WithValidCategories(ai_analysis, valid_categories) ==
    IF valid_categories = <<>> THEN ai_analysis
    ELSE WithValidCategories(
             IF \E i \in DOMAIN ai_analysis : ai_analysis[i].category = Head(valid_categories)
             THEN ai_analysis
             ELSE Append(ai_analysis, [category |-> Head(valid_categories), items |-> <<>>]),
             Tail(valid_categories))

\* the categories a JSON answer may hold: those asked for and one more
JsonCategories == Append(AiCategories, "Tone")

\* the dicts json.loads may yield: some of the categories, with m findings
JsonAnswers(m) ==
    UNION {Mappings(Restrict(JsonCategories, C), AiFindings, m) :
             C \in SUBSET Range(JsonCategories)}

\* what requests.post and the decoding of its body may give: an exception,
\* a status other than 200, a text json.loads rejects, or a decoded dict
LlmResponses ==
    {[kind |-> "exception", message |-> "Connection refused"],
     [kind |-> "status", status_code |-> 500],
     [kind |-> "text", text |-> "The content is clear and well organised."]}
      \cup {[kind |-> "json", value |-> j] :
               j \in UNION {JsonAnswers(m) : m \in 0..MaxAiFindings}}

\* the value _analyze_with_ai returns for an answer of the language model
AiAnalysisOf(r) ==
    CASE r.kind = "exception" -> AiUnavailable("Error: " \o r.message)
      [] r.kind = "status" -> AiUnavailable("API error: " \o ToString(r.status_code))
      [] r.kind = "text" -> AiUnavailable("Could not parse AI analysis results.")
      [] r.kind = "json" -> WithValidCategories(r.value, AiCategories)

\* the values _analyze_with_ai may return
_analyze_with_ai == {AiAnalysisOf(r) : r \in LlmResponses}

\* items of ai_analysis under category cat ([] when it has none)
RECURSIVE ItemsUnder(_, _)
ItemsUnder(ai_analysis, cat) ==
    IF ai_analysis = <<>> THEN <<>>
    ELSE IF Head(ai_analysis).category = cat THEN Head(ai_analysis).items
    ELSE ItemsUnder(Tail(ai_analysis), cat)

\* for category, items in ai_analysis.items():
\*     if category in findings: findings[category].extend(items)
Merge(f, ai_analysis) ==
    [i \in DOMAIN f |->
        [category |-> f[i].category,
         items |-> f[i].items \o ItemsUnder(ai_analysis, f[i].category)]]

----------------------------------------------------------------------------
(* SpecContent: ContentAnalyzer.analyze, step by step.                     *)

InitContent ==
    /\ pc = "checks"
    /\ analyzer = "Content"
    /\ page \in ContentPages
    /\ together_api_key \in {None, "key"}
    /\ findings = [i \in 1..4 |-> [category |-> CategoryOrder("Content")[i], items |-> <<>>]]
    /\ score = None
    /\ category = None
    /\ finding = None
    /\ result = NoResult
    /\ NoRun
    /\ response = None
    /\ api_key = None

\* the seven checks append their findings
ContentChecks ==
    /\ pc = "checks"
    /\ findings' = ContentCheckFindings(page)
    /\ pc' = IF together_api_key # None THEN "ai" ELSE "score"
    /\ UNCHANGED <<api_key, response, analyzer, category, finding, result, contentVars, runVars>>

\* if self.together_api_key: the answer's findings are merged
AnalyzeWithAi ==
    /\ pc = "ai"
    /\ \E r \in LlmResponses :
          /\ response' = r
          /\ findings' = Merge(findings, AiAnalysisOf(r))
    /\ pc' = "score"
    /\ UNCHANGED <<api_key, analyzer, category, finding, result, contentVars, runVars>>

\* score = self._calculate_score(findings); an exception leaves analyze()
ContentCalculateScore ==
    /\ pc = "score"
    /\ \E out \in _calculate_score(analyzer, findings) :
          IF out.kind = "raise"
          THEN /\ result' = out
               /\ pc' = "raised"
               /\ score' = score
          ELSE /\ score' = out.value
               /\ pc' = "recommend"
               /\ result' = result
    /\ UNCHANGED <<api_key, response, analyzer, findings, category, finding, page, together_api_key, runVars>>

\* recommendations = self._generate_recommendations(findings); return {...}
ContentRecommend ==
    /\ pc = "recommend"
    /\ result' = Return([score |-> score,
                         findings |-> findings,
                         recommendations |-> _generate_recommendations(analyzer, findings)])
    /\ pc' = "returned"
    /\ UNCHANGED <<api_key, response, analyzer, findings, category, finding, contentVars, runVars>>

NextContent ==
    \/ ContentChecks
    \/ AnalyzeWithAi
    \/ ContentCalculateScore
    \/ ContentRecommend

SpecContent == InitContent /\ [][NextContent]_vars

\* the finding with a severity that is missing or unknown made a warning
AsWarning(f) ==
    IF "type" \in DOMAIN f /\ f["type"] \in Severities THEN f
    ELSE [k \in DOMAIN f \cup {"type"} |-> IF k = "type" THEN "warning" ELSE f[k]]

\* the findings mapping with every such finding made a warning
Normalized(f) ==
    [c \in DOMAIN f |->
        [category |-> f[c].category,
         items |-> [i \in DOMAIN f[c].items |-> AsWarning(f[c].items[i])]]]

\* C2: a finding whose severity is missing or is not success, warning or
\* error counts as a warning: the analysis does not fail, its score and its
\* recommendations are those of the findings with such severities replaced
\* by warning, and no untyped finding is in its result.
C2_UntypedCountsAsWarning ==
    pc \in {"returned", "raised"} =>
        /\ result.kind = "return"
        /\ Return(result.value.score) \in _calculate_score("Content", Normalized(findings))
        /\ result.value.recommendations
              = _generate_recommendations("Content", Normalized(findings))
        /\ result.value.findings = Normalized(findings)

----------------------------------------------------------------------------
(* The overall score: app.calculate_overall_score.                         *)

\* the names run_analysis gives the analyzers, in the order it adds them
AnalyzerOrder ==
    <<"SEO", "Performance", "Content", "Accessibility", "Security", "Design & UX",
      "AI Insights">>

AnalyzerNames == Range(AnalyzerOrder)

\* an analysis result, of which run_analysis and calculate_overall_score
\* read the score alone
AnalyzerResult(s) == [score |-> s]

\* the weights table, in thousandths, before the redistribution
overall_base_weights ==
    [name \in AnalyzerNames |->
        CASE name = "SEO" -> 200 [] name = "Performance" -> 200 [] name = "Content" -> 200
          [] name = "Accessibility" -> 150 [] name = "Security" -> 150
          [] name = "Design & UX" -> 100 [] name = "AI Insights" -> 0]

\* the weights table after `if "AI Insights" in results`: 0.1 for AI
\* Insights and 0.9 of its weight for every other key
overall_weights(r) ==
    IF "AI Insights" \in DOMAIN r
    THEN [name \in AnalyzerNames |->
             IF name = "AI Insights" THEN 100 ELSE (overall_base_weights[name] * 9) \div 10]
    ELSE overall_base_weights

\* sum(w.get(category, 0) * x[category] for category in names)
RECURSIVE SumOver(_, _, _)
SumOver(names, w, x) ==
    IF names = <<>> THEN 0
    ELSE Get(w, Head(names), 0) * x[Head(names)] + SumOver(Tail(names), w, x)

\* results.keys(), as a list
Keys(r) == Restrict(AnalyzerOrder, DOMAIN r)

\* a weighted sum that takes the weights before the redistribution, AI
\* Insights at 0.1
overall_weighted_sum_unscaled(r) ==
    SumOver(Keys(r),
            [name \in AnalyzerNames |->
                IF name = "AI Insights" THEN 100 ELSE overall_base_weights[name]],
            [name \in DOMAIN r |-> r[name].score])

\* weighted_sum
overall_weighted_sum(r) ==
    SumOver(Keys(r), overall_weights(r), [name \in DOMAIN r |-> r[name].score])

\* a divisor that is the sum of the whole weights table
overall_weight_of_table(r) ==
    SumOver(AnalyzerOrder, overall_weights(r), [name \in AnalyzerNames |-> 1])

\* total_weight
overall_total_weight(r) ==
    SumOver(Keys(r), overall_weights(r), [name \in DOMAIN r |-> 1])

\* The outcomes of calculate_overall_score(results).
calculate_overall_score(r) ==
    IF DOMAIN r = {} THEN {Return(0)}
    ELSE IF overall_total_weight(r) = 0 THEN {Return(0)}
    ELSE {Return(v) : v \in round(overall_weighted_sum(r), overall_total_weight(r))}

----------------------------------------------------------------------------
(* SpecOverall: calculate_overall_score applied to bounded results.        *)

\* the scores of the analyzers: 0, 100 and the steps between
OverallScores == {(100 * i) \div MaxScoreSteps : i \in 0..MaxScoreSteps}

InitOverall ==
    /\ pc = "overall"
    /\ \E S \in SUBSET AnalyzerNames :
          results \in [S -> {AnalyzerResult(s) : s \in OverallScores}]
    /\ analyzer = None
    /\ findings = <<>>
    /\ category = None
    /\ finding = None
    /\ result = NoResult
    /\ NoContentAnalysis
    /\ enabled = {}
    /\ soup = {}
    /\ analyzers_to_run = <<>>
    /\ report = None
    /\ ui = {}
    /\ response = None
    /\ api_key = None

CalculateOverallScore ==
    /\ pc = "overall"
    /\ result' \in calculate_overall_score(results)
    /\ pc' = "overall_done"
    /\ UNCHANGED <<api_key, response, analyzer, findings, category, finding, contentVars, runVars>>

NextOverall == CalculateOverallScore

SpecOverall == InitOverall /\ [][NextOverall]_vars

\* the weight the claim gives an analyzer, in hundredths
C9_Weight(name) ==
    CASE name = "SEO" -> 20 [] name = "Performance" -> 20 [] name = "Content" -> 20
      [] name = "Accessibility" -> 15 [] name = "Security" -> 15
      [] name = "Design & UX" -> 10

\* the sum of x(name) * weight over the base analyzers present in results
C9_Sum(scored) ==
    LET term(name) ==
            IF name \in DOMAIN results
            THEN (IF scored THEN results[name].score ELSE 1) * C9_Weight(name)
            ELSE 0
    IN  term("SEO") + term("Performance") + term("Content") + term("Accessibility")
          + term("Security") + term("Design & UX")

\* |x|
Abs(x) == IF x < 0 THEN -x ELSE x

\* C9: for a non-empty set S of base analyzers in results, AI Insights
\* absent, calculate_overall_score returns the quotient (sum of score*weight
\* over S) / (sum of weight over S) rounded to the nearest integer, with
\* weights SEO 0.2, Performance 0.2, Content 0.2, Accessibility 0.15,
\* Security 0.15, Design & UX 0.1; analyzers outside S contribute nothing.
C9_RenormalizedAverage ==
    (pc = "overall_done" /\ DOMAIN results # {} /\ "AI Insights" \notin DOMAIN results) =>
        /\ result.kind = "return"
        /\ 2 * Abs(result.value * C9_Sum(FALSE) - C9_Sum(TRUE)) <= C9_Sum(FALSE)

\* three of the six base analyzers ran, with scores that differ, and the
\* overall score lies strictly between the lowest and the highest of them
C9_Witness ==
    /\ pc = "overall_done"
    /\ DOMAIN results = {"SEO", "Security", "Design & UX"}
    /\ results["SEO"].score < results["Security"].score
    /\ results["Security"].score < results["Design & UX"].score
    /\ result.kind = "return"
    /\ result.value > results["SEO"].score
    /\ result.value < results["Design & UX"].score

\* C10: when every per-analyzer score is an integer in 0..100,
\* calculate_overall_score returns an integer in 0..100, for every set of
\* analyzers in results, AI Insights among them or not.
C10_OverallInRange ==
    pc = "overall_done" => result.kind = "return" /\ result.value \in 0..100

\* AI Insights and base analyzers ran and the overall score is neither 0
\* nor 100
C10_Witness ==
    /\ pc = "overall_done"
    /\ "AI Insights" \in DOMAIN results
    /\ Cardinality(DOMAIN results) >= 3
    /\ result.kind = "return"
    /\ result.value \in 1..99

----------------------------------------------------------------------------
(* app.run_analysis.  The document tree is the set of the elements it      *)
(* holds, each named by its tag.                                           *)

\* a page with a main element, one without, and one with a body of
\* paragraphs alone
Pages ==
    { {"html", "head", "title", "style", "script", "body", "header", "nav", "main", "p",
       "aside", "footer"},
      {"html", "head", "title", "style", "script", "body", "header", "nav", "p", "aside",
       "footer"},
      {"html", "head", "title", "body", "p"} }

\* ContentAnalyzer.__init__:
\*     for script in self.soup(["script", "style", "nav", "footer", "header"]):
\*         script.extract()
ContentAnalyzer__init__(tree) == tree \ {"script", "style", "nav", "footer", "header"}

\* AIAnalyzer._get_content_sample: without a main or article element the
\* nav, header, footer and aside elements of the body are decomposed
_get_content_sample(tree) ==
    IF "main" \notin tree /\ "article" \notin tree /\ "body" \in tree
    THEN tree \ {"nav", "header", "footer", "aside"}
    ELSE tree

\* the tree after the constructors of the analyzers in names have run
Constructed(tree, names) ==
    IF "Content" \in names THEN ContentAnalyzer__init__(tree) ELSE tree

\* the tree after analyze() of the analyzer name has run
Analyzed(tree, name) ==
    IF name = "AI Insights" THEN _get_content_sample(tree) ELSE tree

\* the scores analyze() returns in this model
RunScores == {40, 90}

\* the exception analyze() of the analyzer name raises, when it raises
ExceptionOf(name) == IF name = "AI Insights" THEN "AttributeError" ELSE "Exception"

\* what requests.get of the scraper yields: an exception or a response
ScrapeResponses ==
    {[kind |-> "exception", exc |-> e] : e \in {"ConnectionError", "Timeout"}}
      \cup {[kind |-> "response", status_code |-> c] : c \in {200, 404, 500}}

\* a scraper that leaves out response.raise_for_status()
ScrapeExceptionOfTransport(r) == IF r.kind = "exception" THEN r.exc ELSE None

\* what WebScraper.scrape raises on the answer r, None when it returns:
\* the exception of requests.get, or HTTPError from raise_for_status()
ScrapeException(r) ==
    IF r.kind = "exception" THEN r.exc
    ELSE IF r.status_code >= 400 THEN "HTTPError"
    ELSE None

\* what the except clause of run_analysis puts on the page
ShowError(e) ==
    {[kind |-> "error", message |-> "An error occurred during analysis: " \o e],
     [kind |-> "text", message |-> "Detailed error information:"],
     [kind |-> "code", message |-> e],
     [kind |-> "info", message |-> "Please check the URL and try again, or report this issue."]}

InitRun ==
    /\ pc = "scrape"
    /\ enabled \in SUBSET AnalyzerNames
    /\ soup = {}
    /\ analyzers_to_run = <<>>
    /\ results = EmptyDict
    /\ report = None
    /\ ui = {}
    /\ analyzer = None
    /\ findings = <<>>
    /\ category = None
    /\ finding = None
    /\ result = NoResult
    /\ NoContentAnalysis
    /\ response \in ScrapeResponses
    /\ api_key = None

\* page_content = scraper.scrape() returns the parsed tree
Scrape ==
    /\ pc = "scrape"
    /\ ScrapeException(response) = None
    /\ soup' \in Pages
    /\ pc' = "construct"
    /\ UNCHANGED <<api_key, response, analyzer, findings, category, finding, result, contentVars, enabled,
                   analyzers_to_run, results, report, ui>>

\* scraper.scrape() raises: the except clause shows the error
ScrapeRaises ==
    /\ pc = "scrape"
    /\ ScrapeException(response) # None
    /\ result' = Raise(ScrapeException(response))
    /\ ui' = ui \cup ShowError(ScrapeException(response))
    /\ pc' = "done"
    /\ UNCHANGED <<api_key, response, analyzer, findings, category, finding, contentVars, enabled, soup,
                   analyzers_to_run, results, report>>

\* the analyzers enabled are constructed and listed, in the fixed order
Construct ==
    /\ pc = "construct"
    /\ analyzers_to_run' = Restrict(AnalyzerOrder, enabled)
    /\ soup' = Constructed(soup, enabled)
    /\ results' = EmptyDict
    /\ pc' = IF enabled = {} THEN "report" ELSE "analyze"
    /\ UNCHANGED <<api_key, response, analyzer, findings, category, finding, result, contentVars, enabled,
                   report, ui>>

\* a loop that takes the analyzers from the end of the list
CurrentFromEnd == analyzers_to_run[Len(analyzers_to_run) - Cardinality(DOMAIN results)]

\* the analyzer the loop is at
Current == analyzers_to_run[Cardinality(DOMAIN results) + 1]

\* one iteration of the loop: results[name] = analyzer.analyze()
Analyze ==
    /\ pc = "analyze"
    /\ \E s \in RunScores : results' = (Current :> AnalyzerResult(s)) @@ results
    /\ soup' = Analyzed(soup, Current)
    /\ pc' = IF Cardinality(DOMAIN results) + 1 = Len(analyzers_to_run)
             THEN "report" ELSE "analyze"
    /\ UNCHANGED <<api_key, response, analyzer, findings, category, finding, result, contentVars, enabled,
                   analyzers_to_run, report, ui>>

\* analyze() raises in an iteration: the loop is left for the except clause,
\* which shows the error
AnalyzeRaises ==
    /\ pc = "analyze"
    /\ analyzer' = Current
    /\ result' = Raise(ExceptionOf(Current))
    /\ soup' = Analyzed(soup, Current)
    /\ ui' = ui \cup ShowError(ExceptionOf(Current))
    /\ pc' = "done"
    /\ UNCHANGED <<api_key, response, findings, category, finding, contentVars, enabled, analyzers_to_run,
                   results, report>>

\* report = ReportGenerator(results, ...).generate()
GenerateReport ==
    /\ pc = "report"
    /\ report' = [sections |-> DOMAIN results]
    /\ pc' = "display"
    /\ UNCHANGED <<api_key, response, analyzer, findings, category, finding, result, contentVars, enabled,
                   soup, analyzers_to_run, results, ui>>

\* display_results(url, results, report)
DisplayResults ==
    /\ pc = "display"
    /\ \E overall \in calculate_overall_score(results) :
          ui' = ui \cup {[kind |-> "results", overall_score |-> overall.value,
                          report |-> report]}
    /\ pc' = "done"
    /\ UNCHANGED <<api_key, response, analyzer, findings, category, finding, result, contentVars, enabled,
                   soup, analyzers_to_run, results, report>>

NextRun ==
    \/ Scrape
    \/ ScrapeRaises
    \/ Construct
    \/ Analyze
    \/ AnalyzeRaises
    \/ GenerateReport
    \/ DisplayResults

SpecRun == InitRun /\ [][NextRun]_vars

\* C3: if analyze() of one selected analyzer raises, the other selected
\* analyzers still run, the entry of the failed analyzer in results is a
\* result with score 0, and the report is generated and displayed.
C3_FailureIsolated ==
    (pc = "done" /\ analyzer # None /\ result.kind = "raise") =>
        /\ DOMAIN results = Range(analyzers_to_run)
        /\ results[analyzer].score = 0
        /\ report # None
        /\ \E shown \in ui : shown.kind = "results"

\* C4: the document tree is not modified after the scraper returns it:
\* constructing and running the analyzers leave its set of elements as it is.
C4_TreeUnchanged == [][pc # "scrape" => soup' = soup]_vars

\* C13: when the fetch of the page fails (connection error, timeout, status
\* outside 2xx), run_analysis shows exactly one error, constructs and runs
\* no analyzer, and produces and displays no results and no report.
C13_FetchFailureReportedOnce ==
    (pc # "scrape" /\ (response.kind = "exception" \/ response.status_code \notin 200..299)) =>
        /\ pc = "done"
        /\ result.kind = "raise"
        /\ Cardinality({shown \in ui : shown.kind = "error"}) = 1
        /\ analyzers_to_run = <<>>
        /\ analyzer = None
        /\ results = EmptyDict
        /\ report = None
        /\ \A shown \in ui : shown.kind # "results"

C13_Witness ==
    /\ pc = "done"
    /\ response.kind = "response"
    /\ response.status_code = 404
    /\ result = Raise("HTTPError")
    /\ enabled = AnalyzerNames

\* the position of an analyzer in the fixed order
Position(name) == CHOOSE i \in DOMAIN AnalyzerOrder : AnalyzerOrder[i] = name

\* C20: the selected analyzers are run one at a time in the order SEO,
\* Performance, Content, Accessibility, Security, Design & UX, AI Insights:
\* a step stores the result of one analyzer at most, that of the first
\* analyzer of the list without a result, and the report is generated
\* and the results shown only when every selected analyzer has its result.
C20_SequentialInFixedOrder ==
    [][ /\ analyzers_to_run' # analyzers_to_run =>
              /\ Range(analyzers_to_run') = enabled
              /\ \A i, j \in DOMAIN analyzers_to_run' :
                    i < j => Position(analyzers_to_run'[i]) < Position(analyzers_to_run'[j])
        /\ results' # results =>
              \E k \in DOMAIN analyzers_to_run :
                 /\ DOMAIN results = {analyzers_to_run[i] : i \in 1..(k - 1)}
                 /\ DOMAIN results' = DOMAIN results \cup {analyzers_to_run[k]}
                 /\ \A name \in DOMAIN results : results'[name] = results[name]
        /\ pc \in {"report", "display"} /\ pc' # pc =>
              /\ DOMAIN results = enabled
              /\ results' = results
      ]_vars

C20_Witness ==
    /\ pc = "done"
    /\ DOMAIN results = AnalyzerNames
    /\ \E shown \in ui : shown.kind = "results"

----------------------------------------------------------------------------
(* SpecAi: AIAnalyzer.analyze, with and without the language model.        *)

\* recommendations in the JSON answer of the language model
MaxJsonRecommendations == 1

\* a dict with the key or without it
Optional(key, values) == {EmptyDict} \cup {key :> v : v \in values}

\* what AIAnalyzer's heuristics observe of the document
AiPages ==
    { [word_count |-> 1600, sentences |-> 100, keywords |-> 12, title |-> 55,
       meta_description |-> 150, h1 |-> 1, images |-> 4, without_alt |-> 0,
       internal |-> 6, external |-> 2, viewport |-> TRUE],
      [word_count |-> 600, sentences |-> 40, keywords |-> 9, title |-> 48,
       meta_description |-> 120, h1 |-> 1, images |-> 0, without_alt |-> 0,
       internal |-> 3, external |-> 0, viewport |-> TRUE],
      [word_count |-> 120, sentences |-> 4, keywords |-> 5, title |-> 12,
       meta_description |-> 0, h1 |-> 2, images |-> 3, without_alt |-> 2,
       internal |-> 0, external |-> 0, viewport |-> FALSE],
      [word_count |-> 0, sentences |-> 0, keywords |-> 0, title |-> 0,
       meta_description |-> 200, h1 |-> 0, images |-> 0, without_alt |-> 0,
       internal |-> 0, external |-> 1, viewport |-> FALSE] }

\* f"{n / d:.1f}" for the quotients of the pages above, which have one decimal
Fixed1(n, d) == ToString(n \div d) \o "." \o ToString(((10 * n) \div d) % 10)

\* one finding or none
If(cond, f) == IF cond THEN <<f>> ELSE <<>>

AiContentFindings(p) ==
    (IF p.word_count < 300
     THEN <<Finding("warning", "Low content volume",
                "The page has only approximately " \o ToString(p.word_count)
                \o " words. Search engines typically favor pages with substantial, valuable content (500+ words).")>>
     ELSE IF p.word_count > 1500
     THEN <<Finding("success", "Substantial content volume",
                "The page has approximately " \o ToString(p.word_count)
                \o " words, which is good for SEO and user engagement.")>>
     ELSE <<Finding("success", "Adequate content volume",
                "The page has approximately " \o ToString(p.word_count)
                \o " words, which is acceptable for most purposes.")>>)
    \o
    (IF p.sentences > 0
     THEN IF p.word_count > 25 * p.sentences
          THEN <<Finding("warning", "Complex sentence structure",
                     "Average of " \o Fixed1(p.word_count, p.sentences)
                     \o " words per sentence. Consider simplifying for better readability.")>>
          ELSE IF p.word_count < 10 * p.sentences
          THEN <<Finding("warning", "Very short sentences",
                     "Average of " \o Fixed1(p.word_count, p.sentences)
                     \o " words per sentence. The content may be overly simplified.")>>
          ELSE <<Finding("success", "Good sentence length",
                     "Average of " \o Fixed1(p.word_count, p.sentences)
                     \o " words per sentence, which is good for readability.")>>
     ELSE <<>>)

AiSeoFindings(p) ==
    If(p.keywords > 0,
       Finding("success", "Keyword presence", "Detected potential keywords."))
    \o
    (IF p.title > 0
     THEN IF p.title < 30
          THEN <<Finding("warning", "Title too short",
                     "The page title is only " \o ToString(p.title)
                     \o " characters. Aim for 50-60 characters to maximize SEO impact.")>>
          ELSE IF p.title > 70
          THEN <<Finding("warning", "Title too long",
                     "The page title is " \o ToString(p.title)
                     \o " characters, which may get truncated in search results. Aim for 50-60 characters.")>>
          ELSE <<Finding("success", "Good title length",
                     "The page title is " \o ToString(p.title)
                     \o " characters, which is within the optimal range for search engines.")>>
     ELSE <<Finding("error", "Missing title",
                "The page does not have a title tag, which is crucial for SEO.")>>)
    \o
    (IF p.meta_description > 0
     THEN IF p.meta_description < 70
          THEN <<Finding("warning", "Meta description too short",
                     "The meta description is only " \o ToString(p.meta_description)
                     \o " characters. Aim for 150-160 characters to maximize click-through rates.")>>
          ELSE IF p.meta_description > 160
          THEN <<Finding("warning", "Meta description too long",
                     "The meta description is " \o ToString(p.meta_description)
                     \o " characters, which may get truncated in search results. Aim for 150-160 characters.")>>
          ELSE <<Finding("success", "Good meta description length",
                     "The meta description is " \o ToString(p.meta_description)
                     \o " characters, which is within the optimal range.")>>
     ELSE <<Finding("error", "Missing meta description",
                "The page does not have a meta description, which is important for SEO and click-through rates.")>>)
    \o
    (IF p.h1 = 0
     THEN <<Finding("error", "Missing H1 heading",
                "The page does not have an H1 heading, which is important for search engines to understand the main topic.")>>
     ELSE IF p.h1 > 1
     THEN <<Finding("warning", "Multiple H1 headings",
                "The page has " \o ToString(p.h1)
                \o " H1 headings. It's best practice to have only one H1 per page.")>>
     ELSE <<Finding("success", "Good H1 usage",
                "The page has exactly one H1 heading, which is optimal for SEO.")>>)
    \o
    (IF p.without_alt > 0
     THEN <<Finding("warning", "Images missing alt text",
                ToString(p.without_alt) \o " out of " \o ToString(p.images)
                \o " images are missing alt text, which is important for SEO and accessibility.")>>
     ELSE IF p.images > 0
     THEN <<Finding("success", "All images have alt text",
                "All " \o ToString(p.images)
                \o " images have alt text, which is excellent for SEO and accessibility.")>>
     ELSE <<>>)
    \o
    (IF p.internal = 0 /\ p.external = 0
     THEN <<Finding("warning", "No links detected",
                "The page doesn't have any links, which may limit its SEO value and user navigation.")>>
     ELSE If(p.internal > 0,
             Finding("success", "Internal linking",
                 "The page has " \o ToString(p.internal)
                 \o " internal links, which helps with site structure and user navigation."))
          \o
          If(p.external > 0,
             Finding("success", "External linking",
                 "The page has " \o ToString(p.external)
                 \o " external links, which can add credibility and context.")))

AiTechnicalFindings(p) ==
    IF p.viewport
    THEN <<Finding("success", "Mobile viewport configured",
               "The page has a viewport meta tag, which is essential for mobile responsiveness.")>>
    ELSE <<Finding("error", "Missing viewport meta tag",
               "The page is missing a viewport meta tag, which is crucial for proper display on mobile devices.")>>

\* the findings _analyze_basic collects
AiBasicFindings(p) ==
    << [category |-> "Content", items |-> AiContentFindings(p)],
       [category |-> "SEO", items |-> AiSeoFindings(p)],
       [category |-> "Technical", items |-> AiTechnicalFindings(p)],
       [category |-> "User Experience", items |-> <<>>] >>

\* the findings of f whose type is t, over all categories
RECURSIVE AiCount(_, _)
AiCount(f, t) ==
    IF f = <<>> THEN 0
    ELSE Cardinality({i \in DOMAIN Head(f).items : Head(f).items[i]["type"] = t})
         + AiCount(Tail(f), t)

Min(a, b) == IF a < b THEN a ELSE b
Max(a, b) == IF a > b THEN a ELSE b

\* AIAnalyzer._calculate_score
AIAnalyzer_calculate_score(f) ==
    Max(0, Min(100, 70 + AiCount(f, "success") * 2 - AiCount(f, "warning") * 1
                       - AiCount(f, "error") * 5))

\* the recommendations added when fewer than three specific ones were found
general_recs ==
    << [priority |-> "Medium", title |-> "Implement schema markup",
        description |-> "Add structured data markup to help search engines better understand your content and potentially enhance search results with rich snippets."],
       [priority |-> "Medium", title |-> "Improve internal linking",
        description |-> "Create a logical internal linking structure that guides users to related content and distributes page authority throughout the site."],
       [priority |-> "Medium", title |-> "Optimize for page speed",
        description |-> "Compress images, minify CSS/JS, leverage browser caching, and reduce server response time to improve page loading speed."] >>

\* AIAnalyzer._generate_recommendations: the first error or warning finding
\* has item.lower() evaluated on it, a dict; without one, the general
\* recommendations are returned
AIAnalyzer_generate_recommendations(f) ==
    IF AiCount(f, "error") + AiCount(f, "warning") > 0
    THEN Raise("AttributeError")
    ELSE Return(general_recs)

\* AIAnalyzer._analyze_basic
_analyze_basic(p) ==
    LET f == AiBasicFindings(p)
        recommendations == AIAnalyzer_generate_recommendations(f)
    IN  IF recommendations.kind = "raise" THEN recommendations
        ELSE Return([score |-> AIAnalyzer_calculate_score(f),
                     findings |-> f,
                     recommendations |-> recommendations.value])

\* values of the "score" key of the answer
JsonScores == {-20, 0, 50, 100, 150}

\* values of the "findings" key of the answer
JsonFindings ==
    { <<>>,
      << [category |-> "SEO",
          items |-> <<Finding("issue", "Thin content", "The page says little.")>>] >> }

\* a recommendation of the answer, with a priority or without
JsonRecommendation ==
    {r @@ ("title" :> "Write more" @@ "description" :> "Add a paragraph on the topic.") :
        r \in Optional("priority", {"High", "Low"})}

\* values of the "recommendations" key of the answer
JsonRecommendations ==
    UNION {[1..n -> JsonRecommendation] : n \in 0..MaxJsonRecommendations}

\* the JSON values the text may hold: an object with some of the four keys,
\* an array, or no JSON at all
JsonValues ==
    {[kind |-> "invalid"], [kind |-> "array"]}
      \cup {[kind |-> "object", members |-> a @@ b @@ c @@ d] :
              a \in Optional("findings", JsonFindings),
              b \in Optional("recommendations", JsonRecommendations),
              c \in Optional("score", JsonScores),
              d \in Optional("summary", {"A clear page."})}

\* the text of a completion: a JSON value, inside a fence of three backquotes
\* (tagged json or plain) or not, with prose around it or not
AiTexts ==
    [fence : {"none", "json", "plain"}, prose : BOOLEAN, inner : JsonValues]

\* the empty string
EmptyText == [fence |-> "none", prose |-> FALSE, inner |-> [kind |-> "invalid"]]

\* json_str, then json.loads(json_str): the text between the fences when
\* there are fences, the whole text otherwise
json_loads(ai_output) ==
    IF ai_output.fence = "none" /\ ai_output.prose THEN Raise("JSONDecodeError")
    ELSE IF ai_output.inner.kind = "invalid" THEN Raise("JSONDecodeError")
    ELSE Return(ai_output.inner)

\* for rec in analysis_data["recommendations"]: a missing priority is Medium
WithPriority(recs) ==
    [i \in DOMAIN recs |->
        IF "priority" \in DOMAIN recs[i] THEN recs[i]
        ELSE recs[i] @@ ("priority" :> "Medium")]

\* what _process_ai_output returns when anything in it raises
PartialResults ==
    [score |-> 50,
     findings |-> << [category |-> "AI Analysis",
                      items |-> <<Finding("warning", "AI Analysis Partial Results",
                                     "The AI provided analysis but in a format that couldn't be fully processed.")>>] >>,
     recommendations |-> << [priority |-> "Medium",
                             title |-> "Review AI findings manually",
                             description |-> "The AI analysis should be reviewed manually for insights."] >>]

\* AIAnalyzer._process_ai_output
_process_ai_output(ai_output) ==
    LET parsed == json_loads(ai_output)
    IN  IF parsed.kind = "raise" THEN PartialResults
        \* analysis_data[key] = ... on a list raises TypeError
        ELSE IF parsed.value.kind = "array" THEN PartialResults
        ELSE LET analysis_data == parsed.value.members
             IN  [score |-> Get(analysis_data, "score", 50),
                  findings |-> Get(analysis_data, "findings", <<>>),
                  recommendations |->
                      WithPriority(Get(analysis_data, "recommendations", <<>>)),
                  summary |-> Get(analysis_data, "summary", "Not provided")]

\* the decoded bodies of a 200 response: result.get("choices", [{}])[0].get("text", "")
AiBodies ==
    {EmptyDict, "choices" :> <<>>, "choices" :> <<EmptyDict>>}
      \cup {"choices" :> <<"text" :> t>> : t \in AiTexts}

\* what requests.post yields: an exception or a response
AiResponses ==
    {[kind |-> "exception", exc |-> "ConnectionError"],
     [kind |-> "response", status_code |-> 500, body |-> EmptyDict]}
      \cup {[kind |-> "response", status_code |-> 200, body |-> b] : b \in AiBodies}

InitAi ==
    /\ pc = "analyze"
    /\ analyzer = "AI Insights"
    /\ page \in AiPages
    /\ together_api_key \in {None, "key"}
    /\ response \in IF together_api_key = None THEN {None} ELSE AiResponses
    /\ findings = <<>>
    /\ score = None
    /\ category = None
    /\ finding = None
    /\ result = NoResult
    /\ NoRun
    /\ api_key = None

\* if self.together_api_key: ... else: return self._analyze_basic()
AiAnalyze ==
    /\ pc = "analyze"
    /\ pc' = IF together_api_key # None THEN "with_ai" ELSE "basic"
    /\ UNCHANGED <<api_key, analyzer, findings, category, finding, result, contentVars,
                   runVars, response>>

\* _analyze_with_ai up to the text of the completion; whatever it raises is
\* caught by analyze(), which falls back to _analyze_basic
AiAnalyzeWithAi ==
    /\ pc = "with_ai"
    /\ pc' = IF response.kind = "exception" THEN "basic"
             ELSE IF response.status_code # 200 THEN "basic"
             \* [][0] raises IndexError
             ELSE IF Get(response.body, "choices", <<EmptyDict>>) = <<>> THEN "basic"
             ELSE "process"
    /\ UNCHANGED <<api_key, analyzer, findings, category, finding, result, contentVars,
                   runVars, response>>

\* return self._process_ai_output(ai_analysis_text)
AiProcessOutput ==
    /\ pc = "process"
    /\ LET ai_analysis_text ==
               Get(Get(response.body, "choices", <<EmptyDict>>)[1], "text", EmptyText)
           out == _process_ai_output(ai_analysis_text)
       IN  /\ result' = Return(out)
           /\ score' = out.score
           /\ findings' = out.findings
    /\ pc' = "returned"
    /\ UNCHANGED <<api_key, analyzer, category, finding, page, together_api_key, runVars,
                   response>>

\* return self._analyze_basic(), or what it raises
AiAnalyzeBasic ==
    /\ pc = "basic"
    /\ findings' = AiBasicFindings(page)
    /\ score' = AIAnalyzer_calculate_score(AiBasicFindings(page))
    /\ result' = _analyze_basic(page)
    /\ pc' = IF _analyze_basic(page).kind = "raise" THEN "raised" ELSE "returned"
    /\ UNCHANGED <<api_key, analyzer, category, finding, page, together_api_key, runVars,
                   response>>

NextAi ==
    \/ AiAnalyze
    \/ AiAnalyzeWithAi
    \/ AiProcessOutput
    \/ AiAnalyzeBasic

SpecAi == InitAi /\ [][NextAi]_vars

\* C11: every result AIAnalyzer.analyze returns has a score in 0..100,
\* whatever score the JSON of the language model holds.
C11_AiScoreInRange ==
    (pc = "returned" /\ analyzer = "AI Insights") => result.value.score \in 0..100

----------------------------------------------------------------------------
(* SpecReport: ReportGenerator.generate on the results of the analyzers.   *)

\* recommendations in one analyzer's result
MaxReportRecs == 3

\* the analyzers whose results the report is generated from
ReportAnalyzers == {"SEO", "Content", "AI Insights"}

\* the list of h High, m Medium and l Low recommendations an analyzer returns
RecList(name, h, m, l) ==
    [i \in 1..(h + m + l) |->
        [priority |-> IF i <= h THEN "High" ELSE IF i <= h + m THEN "Medium" ELSE "Low",
         title |-> name \o " " \o ToString(i),
         description |-> "Recommendation " \o ToString(i) \o " of " \o name]]

\* the lists an analyzer's result may hold: High and Medium from the
\* findings, and Low as well from the language model
ReportRecLists(name) ==
    {RecList(name, t[1], t[2], t[3]) :
        t \in {u \in (0..MaxReportRecs) \X (0..MaxReportRecs)
                      \X (0..(IF name = "AI Insights" THEN MaxReportRecs ELSE 0)) :
                  u[1] + u[2] + u[3] <= MaxReportRecs}}

\* the results dicts over the analyzers names
ReportResults(names) ==
    {r \in [names -> UNION {{[recommendations |-> l] : l \in ReportRecLists(name)} :
                               name \in names}] :
        \A name \in names : r[name].recommendations \in ReportRecLists(name)}

\* the entries of all_recommendations from one result
Collected(name, recommendations) ==
    [i \in DOMAIN recommendations |->
        [category |-> name,
         priority |-> Get(recommendations[i], "priority", "Medium"),
         title |-> Get(recommendations[i], "title", ""),
         recommendation |-> Get(recommendations[i], "description", "")]]

\* for category, data in self.results.items(): ... all_recommendations.append
RECURSIVE all_recommendations(_, _)
all_recommendations(names, r) ==
    IF names = <<>> THEN <<>>
    ELSE Collected(Head(names), Get(r[Head(names)], "recommendations", <<>>))
         \o all_recommendations(Tail(names), r)

\* ReportGenerator._extract_top_recommendations
_extract_top_recommendations(r) ==
    Slice(sorted(all_recommendations(Keys(r), r)), MaxRecommendations)

\* [rec for rec in ai_recommendations if rec["priority"] == "High"]
RECURSIVE HighOf(_)
HighOf(recs) ==
    IF recs = <<>> THEN <<>>
    ELSE (IF Head(recs)["priority"] = "High" THEN <<Head(recs)>> ELSE <<>>)
         \o HighOf(Tail(recs))

\* [rec for rec in top_recommendations if rec["category"] != "AI Insights"]
RECURSIVE NotOf(_, _)
NotOf(recs, name) ==
    IF recs = <<>> THEN <<>>
    ELSE (IF Head(recs)["category"] # name THEN <<Head(recs)>> ELSE <<>>)
         \o NotOf(Tail(recs), name)

\* the top recommendations of ReportGenerator.generate
top_recommendations(r, ai_enabled) ==
    LET top == _extract_top_recommendations(r)
    IN  IF ai_enabled /\ "AI Insights" \in DOMAIN r
        THEN LET ai_recommendations == Get(r["AI Insights"], "recommendations", <<>>)
                 ai_recs == Collected("AI Insights", HighOf(ai_recommendations))
                 other_top_recs == NotOf(top, "AI Insights")
             IN  IF ai_recommendations # <<>>
                 THEN Slice(ai_recs, 3) \o Slice(other_top_recs, 2)
                 ELSE top
        ELSE top

InitReport ==
    /\ pc = "report"
    /\ enabled \in {{}, {"AI Insights"}}
    /\ \E names \in SUBSET ReportAnalyzers : results \in ReportResults(names)
    /\ report = None
    /\ soup = {}
    /\ analyzers_to_run = <<>>
    /\ ui = {}
    /\ analyzer = None
    /\ findings = <<>>
    /\ category = None
    /\ finding = None
    /\ result = NoResult
    /\ NoContentAnalysis
    /\ response = None
    /\ api_key = None

\* report = ReportGenerator(results, ai_enabled=ai_suggestions).generate();
\* ai_suggestions is the flag of AI Insights
Generate ==
    /\ pc = "report"
    /\ report' = [top_recommendations |-> top_recommendations(results, "AI Insights" \in enabled)]
    /\ pc' = "display"
    /\ UNCHANGED <<api_key, analyzer, findings, category, finding, result, contentVars, enabled,
                   soup, analyzers_to_run, results, ui, response>>

NextReport == Generate

SpecReport == InitReport /\ [][NextReport]_vars

\* the number of recommendations over all the results
RECURSIVE TotalRecommendations(_, _)
TotalRecommendations(names, r) ==
    IF names = <<>> THEN 0
    ELSE Len(r[Head(names)].recommendations) + TotalRecommendations(Tail(names), r)

\* C12: the top recommendations of the report are ordered by priority and
\* number min(5, total recommendations of all results), with AI Insights
\* present or not and with High recommendations of AI Insights or not.
C12_TopFiveByPriority ==
    pc = "display" =>
        LET top == report.top_recommendations
        IN  /\ \A i, j \in DOMAIN top :
                  i < j => PriorityRank(top[i].priority) <= PriorityRank(top[j].priority)
            /\ Len(top) = Min(5, TotalRecommendations(Keys(results), results))

----------------------------------------------------------------------------
(* SpecPerf: PerformanceAnalyzer.analyze, with the PageSpeed API and with  *)
(* the basic checks.                                                       *)

\* a request that is not made
NotRequested == [kind |-> "none"]

\* JSON null, None
JsonNull == [kind |-> "null"]

\* findings with the finding item appended to the list of category cat
AppendTo(f, cat, item) ==
    [i \in DOMAIN f |->
        IF f[i].category = cat
        THEN [category |-> cat, items |-> Append(f[i].items, item)]
        ELSE f[i]]

\* findings with the findings items appended to the list of category cat
ExtendTo(f, cat, items) ==
    [i \in DOMAIN f |->
        IF f[i].category = cat
        THEN [category |-> cat, items |-> f[i].items \o items]
        ELSE f[i]]

\* the list findings[cat]
ItemsOf(f, cat) == ItemsUnder(f, cat)

\* findings = {"Speed": [], "Resources": [], "Mobile": [], "Technical": []}
EmptyPerformanceFindings ==
    [i \in 1..4 |-> [category |-> CategoryOrder("Performance")[i], items |-> <<>>]]

\* PerformanceAnalyzer._score_to_type
_score_to_type(s) ==
    IF s >= 80 THEN "success" ELSE IF s >= 50 THEN "warning" ELSE "error"

\* the Core Web Vitals audits, in the order _extract_core_web_vitals reads them
VitalTitle(id) ==
    CASE id = "first-contentful-paint" -> "First Contentful Paint: "
      [] id = "largest-contentful-paint" -> "Largest Contentful Paint: "
      [] id = "cumulative-layout-shift" -> "Cumulative Layout Shift: "
      [] id = "total-blocking-time" -> "Total Blocking Time: "

VitalDescription(id) ==
    CASE id = "first-contentful-paint" ->
           "First Contentful Paint marks when text or images are first visible. "
      [] id = "largest-contentful-paint" ->
           "Largest Contentful Paint measures loading performance. "
      [] id = "cumulative-layout-shift" ->
           "Cumulative Layout Shift measures visual stability. "
      [] id = "total-blocking-time" ->
           "Total Blocking Time measures interactivity. "

\* the finding of one vital; its score is kept in hundredths
Vital(audit) ==
    Finding(_score_to_type(audit.score),
            VitalTitle(audit.id) \o audit.displayValue,
            VitalDescription(audit.id)
              \o (IF audit.score >= 80 THEN "Good"
                  ELSE IF audit.score >= 50 THEN "Needs improvement" ELSE "Poor")
              \o ".")

\* PerformanceAnalyzer._extract_core_web_vitals, as a list
_extract_core_web_vitals(pagespeed_data) ==
    [i \in DOMAIN pagespeed_data.vitals |-> Vital(pagespeed_data.vitals[i])]

\* PerformanceAnalyzer._extract_opportunities
_extract_opportunities(pagespeed_data) ==
    [i \in DOMAIN pagespeed_data.audits |-> Opportunity(pagespeed_data.audits[i])]

\* the "... Speed Score: n" finding
SpeedScore(strategy, lower_strategy, s) ==
    Finding(_score_to_type(s),
            strategy \o " Speed Score: " \o ToString(s),
            "The " \o lower_strategy \o " speed score is " \o ToString(s) \o "/100. "
              \o (IF s >= 80 THEN "This is good!" ELSE "This needs improvement."))

\* desktop_vital["title"] = f"Desktop {desktop_vital['title']}"
DesktopVital(vital_data) ==
    Finding(vital_data.type, "Desktop " \o vital_data.title, vital_data.description)

\* what a decoded body holds of lighthouseResult: the performance score in
\* hundredths, the vitals audits present and the opportunity audits with a
\* score below 1
PageSpeedData ==
    {[performance |-> s, vitals |-> v[1], audits |-> v[2]] :
        s \in {45, 90},
        v \in {<< <<>>, <<>> >>,
               << <<[id |-> "first-contentful-paint", displayValue |-> "1.2 s", score |-> 90],
                    [id |-> "total-blocking-time", displayValue |-> "640 ms", score |-> 40]>>,
                  <<[audit_id |-> "unminified-css"] @@ [overallSavingsMs |-> 150]>> >>}}

\* the bodies of a 200 answer: not JSON, a JSON array, an empty object, or
\* an object with lighthouseResult
PageSpeedJson ==
    {[kind |-> "invalid"], [kind |-> "array"], [kind |-> "object", members |-> EmptyDict]}
      \cup {[kind |-> "object", members |-> d] : d \in PageSpeedData}

\* what requests.get yields for the PageSpeed API
PageSpeedAnswers ==
    {[kind |-> "exception", exc |-> e] : e \in {"Timeout", "ConnectionError"}}
      \cup {[kind |-> "response", status_code |-> 500, json |-> [kind |-> "invalid"]]}
      \cup {[kind |-> "response", status_code |-> 200, json |-> j] : j \in PageSpeedJson}

\* PerformanceAnalyzer._analyze_with_pagespeed: None, or the two results
_analyze_with_pagespeed(env) ==
    IF env.mobile.kind = "exception" THEN JsonNull
    ELSE IF env.mobile.status_code # 200 THEN JsonNull
    \* response.json() raises, the except clause returns None
    ELSE IF env.mobile.json.kind = "invalid" THEN JsonNull
    ELSE IF env.desktop.kind = "exception" THEN JsonNull
    ELSE IF env.desktop.status_code # 200
         THEN [kind |-> "object", mobile |-> env.mobile.json, desktop |-> JsonNull]
    ELSE IF env.desktop.json.kind = "invalid" THEN JsonNull
    ELSE [kind |-> "object", mobile |-> env.mobile.json, desktop |-> env.desktop.json]

\* if mobile_data: - None, {} and [] are false
Truthy(j) ==
    \/ j.kind = "array"
    \/ j.kind = "object" /\ DOMAIN j.members # {}

\* PerformanceAnalyzer._process_pagespeed_results; on a list, .get raises
\* AttributeError out of it
_process_pagespeed_results(pagespeed_results) ==
    LET mobile_data == pagespeed_results.mobile
        desktop_data == pagespeed_results.desktop
        f0 == EmptyPerformanceFindings
        f1 == IF Truthy(mobile_data)
              THEN ExtendTo(
                     ExtendTo(
                       AppendTo(f0, "Speed",
                                SpeedScore("Mobile", "mobile", mobile_data.members.performance)),
                       "Speed", _extract_core_web_vitals(mobile_data.members)),
                     "Resources", _extract_opportunities(mobile_data.members))
              ELSE f0
        desktop_cwv == _extract_core_web_vitals(desktop_data.members)
        f2 == IF Truthy(desktop_data)
              THEN ExtendTo(
                     AppendTo(f1, "Speed",
                              SpeedScore("Desktop", "desktop", desktop_data.members.performance)),
                     "Speed", [i \in DOMAIN desktop_cwv |-> DesktopVital(desktop_cwv[i])])
              ELSE f1
    IN  IF Truthy(mobile_data) /\ mobile_data.kind = "array" THEN Raise("AttributeError")
        ELSE IF Truthy(desktop_data) /\ desktop_data.kind = "array" THEN Raise("AttributeError")
        ELSE Return(AppendTo(f2, "Mobile",
                 Finding("success", "Mobile-friendly",
                     "The page is optimized for mobile devices based on performance tests.")))

\* the findings after the "if self.api_key:" block of analyze
AfterPageSpeed(key, env) ==
    IF key = None THEN EmptyPerformanceFindings
    ELSE LET pagespeed_results == _analyze_with_pagespeed(env)
         IN  IF pagespeed_results.kind = "null" THEN EmptyPerformanceFindings
             ELSE LET processed == _process_pagespeed_results(pagespeed_results)
                  IN  IF processed.kind = "raise" THEN EmptyPerformanceFindings
                      ELSE processed.value

\* f"{t:.2f}" of a time kept in hundredths of a second
Fixed2(t) ==
    ToString(t \div 100) \o "." \o ToString((t \div 10) % 10) \o ToString(t % 10)

\* _check_response_time with the bound of the good bucket included
_check_response_time_inclusive(o) ==
    IF o.kind = "exception"
    THEN IF o.exc = "Timeout"
         THEN Finding("error", "Request timed out",
                  "The server took too long to respond (more than 10 seconds).")
         ELSE Finding("error", "Error checking response time",
                  "Could not check response time: " \o o.exc)
    ELSE IF o.elapsed < 50
    THEN Finding("success", "Fast response time: " \o Fixed2(o.elapsed) \o "s",
             "The server responded in " \o Fixed2(o.elapsed) \o " seconds, which is excellent.")
    ELSE IF o.elapsed <= 150
    THEN Finding("success", "Good response time: " \o Fixed2(o.elapsed) \o "s",
             "The server responded in " \o Fixed2(o.elapsed) \o " seconds, which is good.")
    ELSE IF o.elapsed < 300
    THEN Finding("warning", "Moderate response time: " \o Fixed2(o.elapsed) \o "s",
             "The server responded in " \o Fixed2(o.elapsed) \o " seconds. This could be improved.")
    ELSE Finding("error", "Slow response time: " \o Fixed2(o.elapsed) \o "s",
             "The server responded in " \o Fixed2(o.elapsed) \o " seconds, which is too slow.")

\* PerformanceAnalyzer._check_response_time on the outcome of requests.get
_check_response_time(o) ==
    IF o.kind = "exception"
    THEN IF o.exc = "Timeout"
         THEN Finding("error", "Request timed out",
                  "The server took too long to respond (more than 10 seconds).")
         ELSE Finding("error", "Error checking response time",
                  "Could not check response time: " \o o.exc)
    ELSE IF o.elapsed < 50
    THEN Finding("success", "Fast response time: " \o Fixed2(o.elapsed) \o "s",
             "The server responded in " \o Fixed2(o.elapsed) \o " seconds, which is excellent.")
    ELSE IF o.elapsed < 150
    THEN Finding("success", "Good response time: " \o Fixed2(o.elapsed) \o "s",
             "The server responded in " \o Fixed2(o.elapsed) \o " seconds, which is good.")
    ELSE IF o.elapsed < 300
    THEN Finding("warning", "Moderate response time: " \o Fixed2(o.elapsed) \o "s",
             "The server responded in " \o Fixed2(o.elapsed) \o " seconds. This could be improved.")
    ELSE Finding("error", "Slow response time: " \o Fixed2(o.elapsed) \o "s",
             "The server responded in " \o Fixed2(o.elapsed) \o " seconds, which is too slow.")

\* PerformanceAnalyzer._estimate_page_weight on the size estimated, in KB,
\* and the number of resources counted
_estimate_page_weight(o) ==
    LET kb == ToString(o.estimated_kb)
        across == "The page uses approximately " \o kb \o "KB across at least "
                    \o ToString(o.resource_count) \o " resources"
    IN  IF o.kind = "exception"
        THEN Finding("warning", "Could not estimate page weight",
                 "Error when estimating page weight: " \o o.exc)
        ELSE IF o.estimated_kb < 500
        THEN Finding("success", "Light page weight: " \o kb \o "KB", across \o ", which is good.")
        ELSE IF o.estimated_kb < 1500
        THEN Finding("success", "Average page weight: " \o kb \o "KB", across \o ".")
        ELSE IF o.estimated_kb < 3000
        THEN Finding("warning", "Heavy page weight: " \o kb \o "KB",
                 across \o ". Consider optimization.")
        ELSE Finding("error", "Very heavy page: " \o kb \o "KB", across \o ", which is too heavy.")

\* PerformanceAnalyzer._check_http2 on the outcome of the urllib3 request
_check_http2(o) ==
    IF o.kind = "exception"
    THEN Finding("warning", "Could not check HTTP version",
             "Error when checking HTTP version: " \o o.exc)
    ELSE IF o.protocol = "h2" \/ o.protocol = "2"
    THEN Finding("success", "HTTP/2 supported",
             "The website supports HTTP/2, which improves page load performance through multiplexing.")
    ELSE Finding("warning", "HTTP/2 not detected",
             "The website appears to use HTTP/1.1. Upgrading to HTTP/2 could improve performance.")

\* PerformanceAnalyzer._check_ssl on the scheme of the URL and the outcome of
\* the TLS handshake
_check_ssl(scheme, o) ==
    IF scheme # "https"
    THEN Finding("error", "No HTTPS",
             "The website does not use HTTPS, which is essential for security and performance.")
    ELSE IF o.kind = "exception"
    THEN Finding("success", "HTTPS enabled",
             "The website uses HTTPS, which is good for security and performance.")
    ELSE IF o.protocol \in {"TLSv1.2", "TLSv1.3"}
    THEN Finding("success", "Modern HTTPS (" \o o.protocol \o ")",
             "The website uses " \o o.protocol \o ", which is secure and performs well.")
    ELSE Finding("warning", "Outdated HTTPS (" \o o.protocol \o ")",
             "The website uses " \o o.protocol
               \o ", which is outdated. Upgrading to TLS 1.2 or 1.3 is recommended.")

\* the block under "if not findings["Speed"]:"
BasicChecks(f, env) ==
    AppendTo(
      AppendTo(
        AppendTo(
          AppendTo(f, "Speed", _check_response_time(env.get)),
          "Resources", _estimate_page_weight(env.weight)),
        "Technical", _check_http2(env.http2)),
      "Technical", _check_ssl(env.scheme, env.tls))

\* the findings of PerformanceAnalyzer.analyze
PerformanceFindings(key, env) ==
    LET f == AfterPageSpeed(key, env)
    IN  IF ItemsOf(f, "Speed") = <<>> THEN BasicChecks(f, env) ELSE f

\* the outcomes of the probes of the basic checks
Probes ==
    [get : {[kind |-> "response", elapsed |-> 32], [kind |-> "response", elapsed |-> 320],
            [kind |-> "exception", exc |-> "Timeout"],
            [kind |-> "exception", exc |-> "ConnectionError"]},
     weight : {[kind |-> "response", estimated_kb |-> 320, resource_count |-> 8],
               [kind |-> "response", estimated_kb |-> 5200, resource_count |-> 11],
               [kind |-> "exception", exc |-> "ConnectionError"]},
     http2 : {[kind |-> "response", protocol |-> "h2"],
              [kind |-> "response", protocol |-> "11"],
              [kind |-> "exception", exc |-> "MaxRetryError"]},
     scheme : {"http", "https"},
     tls : {NotRequested,
            [kind |-> "response", protocol |-> "TLSv1.3"],
            [kind |-> "response", protocol |-> "TLSv1.1"],
            [kind |-> "exception", exc |-> "SSLError"]}]

\* the requests of one analysis and their outcomes: the URL's scheme, the
\* answers of the PageSpeed API when there is a key, the probes; the TLS
\* handshake is made for an https URL only
PerformanceEnvironments(key) ==
    {p @@ [mobile |-> q[1], desktop |-> q[2]] :
        p \in {x \in Probes : (x.scheme = "https") = (x.tls # NotRequested)},
        q \in IF key = None THEN {<<NotRequested, NotRequested>>}
              ELSE PageSpeedAnswers \X PageSpeedAnswers}

InitPerf ==
    /\ pc = "analyze"
    /\ analyzer = "Performance"
    /\ api_key \in {None, "key"}
    /\ response \in PerformanceEnvironments(api_key)
    /\ findings = EmptyPerformanceFindings
    /\ score = None
    /\ page = None
    /\ together_api_key = None
    /\ category = None
    /\ finding = None
    /\ result = NoResult
    /\ NoRun

\* if self.api_key: try: ... findings = self._process_pagespeed_results(...)
PerfPageSpeed ==
    /\ pc = "analyze"
    /\ findings' = AfterPageSpeed(api_key, response)
    /\ pc' = IF ItemsOf(findings', "Speed") = <<>> THEN "basic" ELSE "score"
    /\ UNCHANGED <<analyzer, category, finding, result, contentVars, runVars, response,
                   api_key>>

\* if not findings["Speed"]: the four basic checks
PerfBasicChecks ==
    /\ pc = "basic"
    /\ findings' = BasicChecks(findings, response)
    /\ pc' = "score"
    /\ UNCHANGED <<analyzer, category, finding, result, contentVars, runVars, response,
                   api_key>>

\* score, recommendations, return
PerfReturn ==
    /\ pc = "score"
    /\ \E out \in _calculate_score(analyzer, findings) :
          IF out.kind = "raise"
          THEN /\ result' = out
               /\ pc' = "raised"
               /\ score' = score
          ELSE /\ score' = out.value
               /\ result' = Return([score |-> out.value,
                                    findings |-> findings,
                                    recommendations |->
                                        _generate_recommendations(analyzer, findings)])
               /\ pc' = "returned"
    /\ UNCHANGED <<analyzer, findings, category, finding, page, together_api_key, runVars,
                   response, api_key>>

NextPerf ==
    \/ PerfPageSpeed
    \/ PerfBasicChecks
    \/ PerfReturn

SpecPerf == InitPerf /\ [][NextPerf]_vars

\* a request to the PageSpeed API that fails: an exception (a timeout among
\* them), a status other than 200, or a body that is not JSON
OracleCallFails(o) ==
    \/ o.kind = "exception"
    \/ o.kind = "response" /\ o.status_code # 200
    \/ o.kind = "response" /\ o.status_code = 200 /\ o.json.kind = "invalid"

\* the request is made: the desktop request follows a mobile answer that
\* could be decoded
MobileRequested == api_key # None
DesktopRequested == api_key # None /\ ~OracleCallFails(response.mobile)

\* C14: with an API key and a failing call of the PageSpeed API, analyze()
\* returns the findings analyze() without a key returns: the same
\* categories, filled by the same basic checks.
C14_OracleFailureAsNoKey ==
    (/\ pc = "returned"
     /\ analyzer = "Performance"
     /\ \/ MobileRequested /\ OracleCallFails(response.mobile)
        \/ DesktopRequested /\ OracleCallFails(response.desktop))
    => result.value.findings = PerformanceFindings(None, response)

\* C18: when the HTTP/2 probe or the TLS handshake of the basic checks
\* fails, its finding is a warning.
C18_ProbeFailureIsWarning ==
    (pc = "returned" /\ analyzer = "Performance"
       /\ Len(ItemsOf(result.value.findings, "Technical")) = 2) =>
        LET technical == ItemsOf(result.value.findings, "Technical")
        IN  /\ response.http2.kind = "exception" => technical[1].type = "warning"
            /\ response.tls.kind = "exception" => technical[2].type = "warning"

----------------------------------------------------------------------------
(* SpecSeo: SEOAnalyzer.analyze, check by check.                           *)

\* findings = {"Meta Tags": [], "Headings": [], "Content": [], ...}
EmptySeoFindings ==
    [i \in 1..6 |-> [category |-> CategoryOrder("SEO")[i], items |-> <<>>]]

\* text.strip(): the blanks at both ends removed
RECURSIVE strip(_)
strip(text) ==
    IF Len(text) = 0 THEN text
    ELSE IF SubSeq(text, 1, 1) = " " THEN strip(SubSeq(text, 2, Len(text)))
    ELSE IF SubSeq(text, Len(text), Len(text)) = " "
         THEN strip(SubSeq(text, 1, Len(text) - 1))
    ELSE text

\* a title text of ten characters, and texts of 9, 70 and 71 made of it
Title10 == "Home page!"
Title9 == SubSeq(Title10, 1, 9)
Title70 == Title10 \o Title10 \o Title10 \o Title10 \o Title10 \o Title10 \o Title10
Title71 == Title70 \o "!"

\* the title element of the document: None when the document has none,
\* else the text title_tag.get_text() gives
SeoTitles ==
    {None, "", "   ", Title9, Title10, " " \o Title10 \o " ", "Test Page Title",
     Title70, Title71}

\* a check of the title that takes the lengths 10 and 70 for too short and
\* too long
_check_title_exclusive(title_tag) ==
    IF title_tag = None
    THEN Finding("error", "Missing title tag",
             "Your page doesn't have a title tag, which is crucial for SEO.")
    ELSE LET title_text == strip(title_tag)
             title_length == Len(title_text)
         IN  IF title_text = ""
             THEN Finding("error", "Empty title tag", "Your title tag exists but is empty.")
             ELSE IF title_length <= 10
             THEN Finding("warning", "Title too short",
                      "Your title is only " \o ToString(title_length)
                         \o " characters long. Search engines typically display 50-60 characters.")
                    @@ [details |-> title_text]
             ELSE IF title_length >= 70
             THEN Finding("warning", "Title too long",
                      "Your title is " \o ToString(title_length)
                         \o " characters long. Search engines typically display only 50-60 characters.")
                    @@ [details |-> title_text]
             ELSE Finding("success", "Good title length",
                      "Your title is " \o ToString(title_length)
                         \o " characters long, which is optimal for search engines.")
                    @@ [details |-> title_text]

\* SEOAnalyzer._check_title; title_tag is self.soup.find('title'), given by
\* its text
_check_title(title_tag) ==
    IF title_tag = None
    THEN Finding("error", "Missing title tag",
             "Your page doesn't have a title tag, which is crucial for SEO.")
    ELSE LET title_text == strip(title_tag)
             title_length == Len(title_text)
         IN  IF title_text = ""
             THEN Finding("error", "Empty title tag", "Your title tag exists but is empty.")
             ELSE IF title_length < 10
             THEN Finding("warning", "Title too short",
                      "Your title is only " \o ToString(title_length)
                         \o " characters long. Search engines typically display 50-60 characters.")
                    @@ [details |-> title_text]
             ELSE IF title_length > 70
             THEN Finding("warning", "Title too long",
                      "Your title is " \o ToString(title_length)
                         \o " characters long. Search engines typically display only 50-60 characters.")
                    @@ [details |-> title_text]
             ELSE Finding("success", "Good title length",
                      "Your title is " \o ToString(title_length)
                         \o " characters long, which is optimal for search engines.")
                    @@ [details |-> title_text]

\* The checks of analyze() in the order it calls them, with the category
\* their findings go to and lists of findings they return: a single
\* finding for the checks whose result is appended, a list for those whose
\* result is the argument of extend.  The title check returns what
\* _check_title gives for the title of the document.
SeoChecks ==
    << [check |-> "_check_title", category |-> "Meta Tags",
        results |->
          {<<_check_title(t)>> : t \in SeoTitles}],
       [check |-> "_check_meta_description", category |-> "Meta Tags",
        results |->
          { <<Finding("warning", "Missing meta description",
                  "Your page doesn't have a meta description tag, which helps with SEO and click-through rates.")>>,
            <<Finding("warning", "Empty meta description",
                  "Your meta description tag exists but is empty.")>> }],
       [check |-> "_check_meta_keywords", category |-> "Meta Tags",
        results |->
          { <<Finding("success", "No meta keywords tag",
                  "Your page doesn't use meta keywords, which is fine as they're not important for most search engines today.")>>,
            <<Finding("warning", "Empty meta keywords",
                  "Your meta keywords tag exists but is empty. Either add keywords or remove the tag.")>> }],
       [check |-> "_check_canonical", category |-> "Technical",
        results |->
          { <<Finding("warning", "No canonical tag",
                  "Your page doesn't have a canonical tag, which helps prevent duplicate content issues.")>>,
            <<Finding("warning", "Empty canonical URL",
                  "Your canonical tag exists but has an empty href attribute.")>> }],
       [check |-> "_check_headings", category |-> "Headings",
        results |->
          { <<Finding("error", "No headings found",
                  "Your page doesn't have any heading tags (h1-h6), which are important for both SEO and accessibility.")>>,
            <<Finding("error", "No H1 heading found",
                  "Your page doesn't have an H1 heading, which is the main heading and important for SEO."),
              Finding("warning", "Heading levels skipped",
                  "Your page skips from h2 to h4. Headings should follow a logical hierarchy.")>> }],
       [check |-> "_check_content_length", category |-> "Content",
        results |->
          { <<Finding("warning", "Thin content",
                  "Your page has only approximately 120 words. Search engines typically prefer content with at least 300 words.")>>,
            <<Finding("success", "Good content length",
                  "Your page has approximately 900 words, which is good for in-depth content.")>> }],
       [check |-> "_check_keyword_density", category |-> "Content",
        results |->
          { <<Finding("warning", "Cannot analyze keyword density",
                  "Could not extract meaningful keywords from your content.")>>,
            <<Finding("success", "Good keyword density",
                  "Your content has a natural keyword distribution with no signs of keyword stuffing.")>> }],
       [check |-> "_check_links", category |-> "Links",
        results |->
          { <<Finding("warning", "No links found",
                  "Your page doesn't have any links, which may limit its connectivity to other pages.")>>,
            <<Finding("success", "Internal links found (3)",
                  "Your page has 3 internal links, which helps with site structure and SEO."),
              Finding("warning", "No external links",
                  "Your page doesn't have any external links, which can be beneficial for SEO when linking to authority sites.")>> }],
       [check |-> "_check_images", category |-> "Images",
        results |->
          { <<Finding("success", "No images to check",
                  "Your page doesn't contain any images.")>>,
            <<Finding("error", "Images missing alt text (2)",
                  "2 out of 3 images are missing alt attributes, which are important for SEO and accessibility."),
              Finding("success", "Images with alt text (1)",
                  "1 out of 3 images have alt text, which is good for SEO and accessibility.")>> }],
       [check |-> "_check_url_structure", category |-> "Technical",
        results |->
          { <<Finding("success", "Root URL", "This is the root URL of the domain.")>>,
            <<Finding("success", "SEO-friendly URL",
                  "Your URL structure is clean and SEO-friendly.")>> }],
       [check |-> "_check_mobile_friendly", category |-> "Technical",
        results |->
          { <<Finding("warning", "Missing viewport meta tag",
                  "Your page is missing the viewport meta tag, which is essential for mobile-friendly pages.")>>,
            <<Finding("warning", "Limited mobile-friendly indicators",
                  "Found viewport meta tag but limited evidence of responsive design. Consider implementing responsive design techniques.")>> }] >>

\* the place of the check named in the list
SeoCheckAt(name) == CHOOSE i \in DOMAIN SeoChecks : SeoChecks[i].check = name

SeoCheckNames == {SeoChecks[i].check : i \in DOMAIN SeoChecks}

\* exceptions a check may raise on a document it is not prepared for
SeoExceptions == {"AttributeError", "RecursionError"}

InitSeo ==
    /\ pc = SeoChecks[1].check
    /\ analyzer = "SEO"
    /\ findings = EmptySeoFindings
    /\ score = None
    /\ page \in [title : SeoTitles]
    /\ together_api_key = None
    /\ category = None
    /\ finding = None
    /\ result = NoResult
    /\ response = None
    /\ api_key = None
    /\ NoRun

\* x_result = self._check_x(); findings[...].append(x_result), or extend
SeoCheckReturns ==
    /\ pc \in SeoCheckNames
    /\ LET c == SeoChecks[SeoCheckAt(pc)]
       IN  /\ \E r \in c.results :
                 /\ c.check = "_check_title" => r = <<_check_title(page.title)>>
                 /\ findings' = ExtendTo(findings, c.category, r)
           /\ pc' = IF SeoCheckAt(pc) = Len(SeoChecks) THEN "score"
                    ELSE SeoChecks[SeoCheckAt(pc) + 1].check
    /\ UNCHANGED <<analyzer, category, finding, result, contentVars, runVars, response,
                   api_key>>

\* self._check_x() raises: no statement of analyze() catches it
SeoCheckRaises ==
    /\ pc \in SeoCheckNames
    /\ \E e \in SeoExceptions : result' = Raise(e)
    /\ category' = pc
    /\ pc' = "raised"
    /\ UNCHANGED <<analyzer, findings, finding, contentVars, runVars, response, api_key>>

\* score, recommendations, return
SeoReturn ==
    /\ pc = "score"
    /\ \E out \in _calculate_score(analyzer, findings) :
          IF out.kind = "raise"
          THEN /\ result' = out
               /\ pc' = "raised"
               /\ score' = score
          ELSE /\ score' = out.value
               /\ result' = Return([score |-> out.value,
                                    findings |-> findings,
                                    recommendations |->
                                        _generate_recommendations(analyzer, findings)])
               /\ pc' = "returned"
    /\ UNCHANGED <<analyzer, findings, category, finding, page, together_api_key, runVars,
                   response, api_key>>

NextSeo ==
    \/ SeoCheckReturns
    \/ SeoCheckRaises
    \/ SeoReturn

SpecSeo == InitSeo /\ [][NextSeo]_vars

\* C15: an exception inside one check of SEOAnalyzer.analyze does not leave
\* analyze(): the analysis goes on to the other checks and to the result,
\* with a warning finding in the category of the failed check whose
\* description is the error message.
C15_CheckFailureContained ==
    (analyzer = "SEO" /\ category \in SeoCheckNames) =>
        /\ pc # "raised"
        /\ result.kind # "raise"
        /\ \E item \in Range(ItemsOf(findings, SeoChecks[SeoCheckAt(category)].category)) :
              item.type = "warning" /\ item.description \in SeoExceptions

----------------------------------------------------------------------------
\* the findings the merge of the language model's answer added to cat
ReceivedFromAi(cat) ==
    SubSeq(ItemsOf(findings, cat),
           Len(ItemsOf(ContentCheckFindings(page), cat)) + 1,
           Len(ItemsOf(findings, cat)))

\* C16: with an API key ContentAnalyzer.analyze returns a result whatever
\* the language model answers (an exception of the request, a status other
\* than 200, a text that is not JSON, a JSON dict of any categories and
\* finding types), and when the call failed each of Content Quality,
\* Engagement and Readability received exactly one finding, a warning.
C16_LlmFailureDegrades ==
    (analyzer = "Content" /\ together_api_key # None /\ pc \in {"returned", "raised"}) =>
        /\ result.kind = "return"
        /\ response.kind # "json" =>
              \A cat \in Range(AiCategories) :
                  /\ Len(ReceivedFromAi(cat)) = 1
                  /\ ReceivedFromAi(cat)[1].type = "warning"

----------------------------------------------------------------------------
(* SpecSecurity: SecurityAnalyzer._check_https and _check_security_configs, *)
(* request by request.  The checks analyze() runs between the two do not   *)
(* touch the list _check_security_configs builds.                          *)

\* the directories whose outcome varies; the later ones answer 404
MaxProbedDirs == 2

common_dirs == <<"images", "js", "css", "uploads", "assets", "includes">>

\* ', '.join(names)
RECURSIVE JoinComma(_)
JoinComma(names) ==
    IF names = <<>> THEN ""
    ELSE IF Len(names) = 1 THEN names[1]
    ELSE names[1] \o ", " \o JoinComma(Tail(names))

\* what requests.get may give for each request of the two methods:
\* "failed" is a RequestException (no connection, timeout)
SecurityProbes ==
    [http : {"failed", "https://", "http://"},
     robots : {"failed", "404", "disallow", "clean"},
     well_known : {"failed", "404", "200"},
     security_txt : {"failed", "404", "200"},
     git : {"failed", "404", "ref", "page"},
     dirs : {d \in [DOMAIN common_dirs -> {"failed", "404", "listing"}] :
                \A i \in DOMAIN common_dirs : i > MaxProbedDirs => d[i] = "404"}]

\* SecurityAnalyzer._check_https; o.http is the outcome of the request to
\* http://{domain}: "failed", or the scheme of response.url
_check_https(scheme, o) ==
    IF scheme # "https"
    THEN Finding("error", "HTTPS not implemented",
             "The website does not use HTTPS encryption, which puts user data at risk.")
    ELSE IF o.http = "failed"
    THEN Finding("success", "HTTPS implemented",
             "The website uses HTTPS encryption to protect user data.")
    ELSE IF o.http = "https://"
    THEN Finding("success", "HTTPS properly implemented with redirect",
             "The website uses HTTPS and correctly redirects HTTP requests to HTTPS.")
    ELSE Finding("warning", "HTTPS implemented but without redirect",
             "The website supports HTTPS but does not redirect HTTP requests to HTTPS.")

\* the robots.txt block
RobotsFindings(o) ==
    CASE o.robots = "disallow" ->
           <<Finding("warning", "Sensitive paths in robots.txt",
                 "Found 1 potentially sensitive paths in robots.txt, including: /admin")>>
      [] o.robots = "clean" ->
           <<Finding("success", "robots.txt properly configured",
                 "The robots.txt file exists and doesn't expose sensitive paths.")>>
      [] OTHER -> <<>>

\* the security.txt block: the two locations in turn, break at the first
\* 200, continue on an exception; then if not security_found
SecurityTxtFindings(o) ==
    LET security_found ==
            \/ o.well_known = "200"
            \/ o.security_txt = "200"
    IN  IF security_found
        THEN <<Finding("success", "security.txt implemented",
                   "The website has a security.txt file for responsible disclosure of security vulnerabilities.")>>
        ELSE <<Finding("warning", "No security.txt file",
                   "The website doesn't have a security.txt file for vulnerability disclosure.")>>

\* the .git/HEAD block
GitFindings(o) ==
    IF o.git = "ref"
    THEN <<Finding("error", "Exposed Git repository",
               "The website has an exposed Git repository, which could leak source code and sensitive information.")>>
    ELSE <<>>

\* exposed_dirs after the loop over common_dirs
RECURSIVE exposed_dirs(_, _)
exposed_dirs(o, i) ==
    IF i > Len(common_dirs) THEN <<>>
    ELSE (IF o.dirs[i] = "listing" THEN <<common_dirs[i]>> ELSE <<>>)
            \o exposed_dirs(o, i + 1)

\* the directory listing block
DirectoryFindings(o) ==
    IF exposed_dirs(o, 1) # <<>>
    THEN <<Finding("warning", "Directory listing enabled",
               "Directory listing is enabled for these directories: "
                  \o JoinComma(exposed_dirs(o, 1)) \o ". This may expose sensitive files.")>>
    ELSE <<>>

InitSecurity ==
    /\ pc = "_check_https"
    /\ analyzer = "Security"
    /\ page \in [scheme : {"http", "https"}]
    /\ response \in SecurityProbes
    /\ findings = <<>>
    /\ finding = None
    /\ score = None
    /\ together_api_key = None
    /\ category = None
    /\ result = NoResult
    /\ api_key = None
    /\ NoRun

\* https_result = self._check_https()
SecCheckHttps ==
    /\ pc = "_check_https"
    /\ finding' = _check_https(page.scheme, response)
    /\ pc' = "robots"
    /\ UNCHANGED <<analyzer, findings, category, result, contentVars, runVars, response,
                   api_key>>

\* _check_security_configs: findings = []; robots.txt
SecRobots ==
    /\ pc = "robots"
    /\ findings' = RobotsFindings(response)
    /\ pc' = "security_txt"
    /\ UNCHANGED <<analyzer, finding, category, result, contentVars, runVars, response,
                   api_key>>

\* _check_security_configs: security.txt
SecSecurityTxt ==
    /\ pc = "security_txt"
    /\ findings' = findings \o SecurityTxtFindings(response)
    /\ pc' = "git"
    /\ UNCHANGED <<analyzer, finding, category, result, contentVars, runVars, response,
                   api_key>>

\* _check_security_configs: .git/HEAD
SecGit ==
    /\ pc = "git"
    /\ findings' = findings \o GitFindings(response)
    /\ pc' = "dirs"
    /\ UNCHANGED <<analyzer, finding, category, result, contentVars, runVars, response,
                   api_key>>

\* _check_security_configs: directory listing; return findings
SecDirectories ==
    /\ pc = "dirs"
    /\ findings' = findings \o DirectoryFindings(response)
    /\ result' = Return(findings')
    /\ pc' = "returned"
    /\ UNCHANGED <<analyzer, finding, category, contentVars, runVars, response, api_key>>

NextSecurity ==
    \/ SecCheckHttps
    \/ SecRobots
    \/ SecSecurityTxt
    \/ SecGit
    \/ SecDirectories

SpecSecurity == InitSecurity /\ [][NextSecurity]_vars

\* the titles of the findings _check_security_configs returned
ConfigurationTitles == {result.value[i].title : i \in DOMAIN result.value}

\* C17: a probe of _check_security_configs that failed to connect adds no
\* finding to the returned list: nothing about robots.txt when its request
\* failed, nothing about security.txt (in particular no 'No security.txt
\* file' warning) when the requests to both locations failed, nothing about
\* Git when the .git/HEAD request failed, no directory listing finding when
\* every directory request failed.
C17_FailedProbeAddsNothing ==
    (analyzer = "Security" /\ pc = "returned") =>
        /\ response.robots = "failed" =>
              ConfigurationTitles \cap {"Sensitive paths in robots.txt",
                                        "robots.txt properly configured"} = {}
        /\ (response.well_known = "failed" /\ response.security_txt = "failed") =>
              ConfigurationTitles \cap {"security.txt implemented",
                                        "No security.txt file"} = {}
        /\ response.git = "failed" => "Exposed Git repository" \notin ConfigurationTitles
        /\ (\A i \in DOMAIN common_dirs : response.dirs[i] \in {"failed", "404"}) =>
              "Directory listing enabled" \notin ConfigurationTitles

\* C19: _check_https returns success for an https URL, success for an http
\* URL whose request ends at an https final URL, and warning for an http
\* URL whose request stays on http.
C19_HttpsCheck ==
    (analyzer = "Security" /\ pc # "_check_https") =>
        /\ page.scheme = "https" => finding.type = "success"
        /\ (page.scheme = "http" /\ response.http = "https://") => finding.type = "success"
        /\ (page.scheme = "http" /\ response.http = "http://") => finding.type = "warning"

----------------------------------------------------------------------------
\* n!
RECURSIVE C21_Factorial(_)
C21_Factorial(n) == IF n = 0 THEN 1 ELSE n * C21_Factorial(n - 1)

\* a common multiple of the possible numbers of findings of a category
C21_Scale == C21_Factorial(MaxScoreFindings + 1)

\* the SEO weight of a category, in hundredths; 0 outside the table
C21_Weight(c) ==
    CASE c \in {"Meta Tags", "Content"} -> 20
      [] c \in {"Headings", "Links", "Images", "Technical"} -> 15
      [] OTHER -> 0

\* the number of findings of severity t among items
C21_Count(items, t) == Cardinality({j \in DOMAIN items : items[j].type = t})

\* C21_Scale times the category score the claim gives: 50 for no finding,
\* else (100 * successes + 50 * warnings) / count
C21_CategoryScore(items) ==
    IF Len(items) = 0 THEN 50 * C21_Scale
    ELSE (100 * C21_Count(items, "success") + 50 * C21_Count(items, "warning"))
            * (C21_Scale \div Len(items))

\* the sum over the categories of f of x(category) * weight
RECURSIVE C21_Sum(_, _)
C21_Sum(f, scored) ==
    IF f = <<>> THEN 0
    ELSE (IF scored THEN C21_CategoryScore(Head(f).items) ELSE 1)
            * C21_Weight(Head(f).category)
          + C21_Sum(Tail(f), scored)

\* C21: for an SEO findings mapping (every finding of severity success,
\* warning or error) whose categories have a positive total weight,
\* _calculate_score returns the integer nearest to
\* (sum of category score * weight) / (sum of weight) over the categories
\* present, the category score being (100 * successes + 50 * warnings) /
\* count, 50 for a category without findings and so 0 for one with errors
\* only.
C21_SeoWeightedAverage ==
    (pc = "scored" /\ analyzer = "SEO" /\ C21_Sum(findings, FALSE) > 0) =>
        /\ result.kind = "return"
        /\ 2 * Abs(result.value * C21_Scale * C21_Sum(findings, FALSE)
                     - C21_Sum(findings, TRUE))
              <= C21_Scale * C21_Sum(findings, FALSE)

\* an SEO mapping with a weighted category without findings and a weighted
\* category of three findings of mixed severities was scored, to a value
\* other than 0, 50 and 100
C21_Witness ==
    /\ pc = "scored"
    /\ analyzer = "SEO"
    /\ result.kind = "return"
    /\ result.value \notin {0, 50, 100}
    /\ \E i, k \in DOMAIN findings :
          /\ findings[i].items = <<>>
          /\ C21_Weight(findings[i].category) > 0
          /\ C21_Weight(findings[k].category) > 0
          /\ Len(findings[k].items) = 3
          /\ {findings[k].items[n].type : n \in 1..3} = {"success", "warning"}

----------------------------------------------------------------------------
\* the mapping f with one warning finding, of category score 50, put under
\* every category that has no finding
C22_Filled(f) ==
    [i \in DOMAIN f |->
        [category |-> f[i].category,
         items |-> IF f[i].items = <<>>
                   THEN <<Finding("warning", "Check", "checked")>>
                   ELSE f[i].items]]

\* C22: in _calculate_score a category mapped to an empty sequence counts
\* as a category of score 50, whatever its weight: the score returned is
\* one the scorer returns for the mapping whose empty categories hold a
\* single warning; and a mapping all of whose categories have weight 0
\* scores 50 without an error.
C22_EmptyCategoryIsFifty ==
    pc = "scored" =>
        /\ result \in _calculate_score(analyzer, C22_Filled(findings))
        /\ (\A i \in DOMAIN findings : WeightOf(analyzer, findings[i].category) = 0)
              => result = Return(50)

\* a mapping with a weighted category without findings and a weighted
\* category with findings was scored to a value other than 50
C22_Witness ==
    /\ pc = "scored"
    /\ result.kind = "return"
    /\ result.value # 50
    /\ \E i, j \in DOMAIN findings :
          /\ findings[i].items = <<>>
          /\ WeightOf(analyzer, findings[i].category) > 0
          /\ findings[j].items # <<>>
          /\ WeightOf(analyzer, findings[j].category) > 0

----------------------------------------------------------------------------
\* the finding of the title check, the first under Meta Tags
C23_TitleFinding == ItemsOf(findings, "Meta Tags")[1]

\* C23: for a document without a title element _check_title returns the
\* error finding 'Missing title tag', for an empty title element an error
\* finding, for a title text of 10 to 70 characters a success finding; and
\* when the title finding is an error the recommendations SEOAnalyzer.analyze
\* returns hold a High-priority recommendation with the title of that finding.
C23_TitleCheck ==
    (analyzer = "SEO" /\ Len(ItemsOf(findings, "Meta Tags")) >= 1) =>
        /\ page.title = None =>
              /\ C23_TitleFinding.type = "error"
              /\ C23_TitleFinding.title = "Missing title tag"
        /\ page.title = "" => C23_TitleFinding.type = "error"
        /\ (page.title # None /\ Len(strip(page.title)) \in 10..70) =>
              C23_TitleFinding.type = "success"
        /\ (pc = "returned" /\ C23_TitleFinding.type = "error") =>
              \E i \in DOMAIN result.value.recommendations :
                  /\ result.value.recommendations[i].priority = "High"
                  /\ result.value.recommendations[i].title = C23_TitleFinding.title

\* analyze() returned for a document without a title whose other checks
\* found at least five more errors and warnings
C23_Witness ==
    /\ analyzer = "SEO"
    /\ pc = "returned"
    /\ page.title = None
    /\ Len(result.value.recommendations) = 5
    /\ Len(ItemsOf(findings, "Headings")) = 2

----------------------------------------------------------------------------
(* SpecAccessibility: AccessibilityAnalyzer.analyze.  The source file ends *)
(* inside _calculate_score, in the weight table: the scorer is the         *)
(* Category Scorer of the specification with a table completed to equal    *)
(* weights; _generate_recommendations, absent too, is left out of the      *)
(* result.                                                                 *)

\* checks other than the language check whose finding is not a success
MaxAccIssues == 3

\* findings = {"Structure": [], "Content": [], "Navigation": [], "Media": []}
EmptyAccessibilityFindings ==
    << [category |-> "Structure", items |-> <<>>],
       [category |-> "Content", items |-> <<>>],
       [category |-> "Navigation", items |-> <<>>],
       [category |-> "Media", items |-> <<>>] >>

\* a check that takes an empty lang attribute for a short language code
_check_language_lenient(html) ==
    IF ~html.present
    THEN Finding("error", "No HTML tag found",
             "The page doesn't have a proper HTML structure.")
    ELSE IF html.lang = None \/ Len(html.lang) < 2
    THEN Finding("warning", "Invalid language code",
             "The language code is too short to be valid.")
    ELSE Finding("success", "Language specified: " \o html.lang,
             "The page correctly specifies '" \o html.lang \o "' as the document language.")

\* AccessibilityAnalyzer._check_language; html.present tells whether
\* soup.find('html') found the element, html.lang is html_tag.get('lang')
_check_language(html) ==
    IF ~html.present
    THEN Finding("error", "No HTML tag found",
             "The page doesn't have a proper HTML structure.")
    ELSE IF html.lang = None \/ html.lang = ""
    THEN Finding("error", "Missing language attribute",
             "The HTML tag doesn't have a lang attribute, which is essential for screen readers.")
    ELSE IF Len(html.lang) < 2
    THEN Finding("warning", "Invalid language code",
             "The language code '" \o html.lang \o "' is too short to be valid.")
    ELSE Finding("success", "Language specified: " \o html.lang,
             "The page correctly specifies '" \o html.lang \o "' as the document language.")

\* The checks analyze() calls after _check_language, in its order, with
\* the category their finding is appended to and, for each severity the
\* check can return, the title of one finding of that severity.
AccessibilityChecks ==
    << [check |-> "_check_page_title", category |-> "Structure",
        titles |-> [success |-> "Page has proper title", warning |-> "Title too short",
                    error |-> "Missing page title"]],
       [check |-> "_check_headings_hierarchy", category |-> "Structure",
        titles |-> [success |-> "Good heading structure",
                    warning |-> "Heading levels are skipped",
                    error |-> "No headings found"]],
       [check |-> "_check_landmarks", category |-> "Structure",
        titles |-> [success |-> "Good landmark structure",
                    warning |-> "No landmarks found"]],
       [check |-> "_check_img_alt_texts", category |-> "Media",
        titles |-> [success |-> "All images have alt text",
                    warning |-> "All images have empty alt text",
                    error |-> "Images missing alt text (3)"]],
       [check |-> "_check_color_contrast", category |-> "Content",
        titles |-> [success |-> "Contrast controls detected",
                    warning |-> "Potential contrast issues"]],
       [check |-> "_check_text_size", category |-> "Content",
        titles |-> [success |-> "Relative font sizes detected",
                    warning |-> "Small text detected"]],
       [check |-> "_check_form_labels", category |-> "Content",
        titles |-> [success |-> "No form controls found",
                    warning |-> "Some form controls are unlabeled (1/4)",
                    error |-> "Most form controls are unlabeled (3/4)"]],
       [check |-> "_check_link_text", category |-> "Navigation",
        titles |-> [success |-> "All links have descriptive text",
                    warning |-> "Some non-descriptive links (1/5)",
                    error |-> "Many non-descriptive links (4/5)"]],
       [check |-> "_check_keyboard_accessibility", category |-> "Navigation",
        titles |-> [success |-> "Skip links detected",
                    warning |-> "Potential keyboard accessibility issues"]],
       [check |-> "_check_tables", category |-> "Content",
        titles |-> [success |-> "No tables found",
                    warning |-> "Tables used for layout (1)",
                    error |-> "Data tables without headers (2)"]] >>

\* the documents: the html element and its lang attribute, and the severity
\* each of the other checks finds on the document
AccessibilityPages ==
    {p \in [html : {[present |-> FALSE, lang |-> None]}
                     \cup {[present |-> TRUE, lang |-> l] : l \in {None, "", "e", "en", "fr"}},
            found : [DOMAIN AccessibilityChecks -> Severities]] :
        /\ \A i \in DOMAIN AccessibilityChecks :
              p.found[i] \in DOMAIN AccessibilityChecks[i].titles
        /\ Cardinality({i \in DOMAIN AccessibilityChecks : p.found[i] # "success"})
              <= MaxAccIssues}

\* findings after the checks of analyze(), from check i on
RECURSIVE AccessibilityCheckFindings(_, _, _)
AccessibilityCheckFindings(p, f, i) ==
    IF i > Len(AccessibilityChecks) THEN f
    ELSE AccessibilityCheckFindings(p,
             AppendTo(f, AccessibilityChecks[i].category,
                      Finding(p.found[i], AccessibilityChecks[i].titles[p.found[i]],
                              "checked")),
             i + 1)

\* findings after the eleven checks of analyze()
AccessibilityFindings(p) ==
    AccessibilityCheckFindings(p,
        AppendTo(EmptyAccessibilityFindings, "Structure", _check_language(p.html)), 1)

\* the weight table of AccessibilityAnalyzer._calculate_score, in hundredths
AccessibilityWeights ==
    [c \in {"Structure", "Content", "Navigation", "Media"} |-> 25]

\* sum of weight over the categories of f
RECURSIVE accessibility_total_weight(_)
accessibility_total_weight(f) ==
    IF f = <<>> THEN 0
    ELSE Get(AccessibilityWeights, Head(f).category, 0) + accessibility_total_weight(Tail(f))

\* sum of category score * weight over the categories of f, times den
RECURSIVE accessibility_weighted_sum(_, _)
accessibility_weighted_sum(f, den) ==
    IF f = <<>> THEN 0
    ELSE LET cs == category_score(Head(f).items)
         IN  cs[1] * (den \div cs[2]) * Get(AccessibilityWeights, Head(f).category, 0)
               + accessibility_weighted_sum(Tail(f), den)

\* AccessibilityAnalyzer._calculate_score: the scores it may return
AccessibilityAnalyzer_calculate_score(f) ==
    IF accessibility_total_weight(f) = 0 THEN {50}
    ELSE round(accessibility_weighted_sum(f, ScoreDen(f)),
               ScoreDen(f) * accessibility_total_weight(f))

InitAccessibility ==
    /\ pc = "checks"
    /\ analyzer = "Accessibility"
    /\ page \in AccessibilityPages
    /\ findings = EmptyAccessibilityFindings
    /\ score = None
    /\ together_api_key = None
    /\ category = None
    /\ finding = None
    /\ result = NoResult
    /\ response = None
    /\ api_key = None
    /\ NoRun

\* the eleven checks, each finding appended to its category
AccChecks ==
    /\ pc = "checks"
    /\ findings' = AccessibilityFindings(page)
    /\ pc' = "score"
    /\ UNCHANGED <<analyzer, category, finding, result, contentVars, runVars, response,
                   api_key>>

\* score = self._calculate_score(findings)
AccCalculateScore ==
    /\ pc = "score"
    /\ score' \in AccessibilityAnalyzer_calculate_score(findings)
    /\ pc' = "return"
    /\ UNCHANGED <<analyzer, findings, category, finding, result, page, together_api_key,
                   runVars, response, api_key>>

\* return {"score": score, "findings": findings, ...}
AccReturn ==
    /\ pc = "return"
    /\ result' = Return([score |-> score, findings |-> findings])
    /\ pc' = "returned"
    /\ UNCHANGED <<analyzer, findings, category, finding, contentVars, runVars, response,
                   api_key>>

NextAccessibility ==
    \/ AccChecks
    \/ AccCalculateScore
    \/ AccReturn

SpecAccessibility == InitAccessibility /\ [][NextAccessibility]_vars

\* the document p with lang="en" on its html element
C24_WithLangEn(p) == [p EXCEPT !.html = [present |-> TRUE, lang |-> "en"]]

\* C24: for a document whose html element has no lang attribute the
\* language finding, the first under Structure, is an error, and the score
\* analyze() returns is strictly lower than every score it returns for the
\* same document with lang="en".
C24_MissingLangLowersScore ==
    (analyzer = "Accessibility" /\ pc = "returned"
       /\ page.html.present /\ page.html.lang = None) =>
        /\ ItemsOf(result.value.findings, "Structure")[1].type = "error"
        /\ \A s \in AccessibilityAnalyzer_calculate_score(
                        AccessibilityFindings(C24_WithLangEn(page))) :
              result.value.score < s

\* analyze() returned for a document without lang whose other checks found
\* an error, a warning and successes
C24_Witness ==
    /\ analyzer = "Accessibility"
    /\ pc = "returned"
    /\ page.html.present
    /\ page.html.lang = None
    /\ \E i, j \in DOMAIN AccessibilityChecks :
          page.found[i] = "error" /\ page.found[j] = "warning"

----------------------------------------------------------------------------
(* SpecSyllables and SpecReadability: count_syllables and                  *)
(* ContentAnalyzer._check_readability on the words and sentences the       *)
(* regular expressions find in the content.                                *)

\* letters of a word given to count_syllables
MaxWordLen == 5
\* sentences of a content
MaxSentences == 3
\* repetitions of each of the two words that make a content
MaxWordRep == 4

vowels == {"a", "e", "i", "o", "u", "y"}

\* count after the loop `for index in range(1, len(word))` from the
\* 1-based position i on
RECURSIVE SyllableLoop(_, _, _)
SyllableLoop(word, i, count) ==
    IF i > Len(word) THEN count
    ELSE SyllableLoop(word, i + 1,
             IF SubSeq(word, i, i) \in vowels /\ SubSeq(word, i - 1, i - 1) \notin vowels
             THEN count + 1 ELSE count)

\* a counter that does not take the final e off
count_syllables_keeping_e(w) ==
    LET word == lower(w)
    IN  IF Len(word) <= 3 THEN 1
        ELSE LET count == SyllableLoop(word, 2,
                              IF SubSeq(word, 1, 1) \in vowels THEN 1 ELSE 0)
             IN  IF count = 0 THEN 1 ELSE count

\* count_syllables(word) of _check_readability
count_syllables(w) ==
    LET word == lower(w)
    IN  IF Len(word) <= 3 THEN 1
        ELSE LET counted == SyllableLoop(word, 2,
                                IF SubSeq(word, 1, 1) \in vowels THEN 1 ELSE 0)
                 count == IF SubSeq(word, Len(word), Len(word)) = "e"
                          THEN counted - 1 ELSE counted
             IN  IF count = 0 THEN 1 ELSE count

\* the words of at most n letters over the letters a, e, y, t and E
RECURSIVE SyllableWords(_)
SyllableWords(n) ==
    IF n = 0 THEN {""}
    ELSE SyllableWords(n - 1)
           \cup {w \o c : w \in {x \in SyllableWords(n - 1) : Len(x) = n - 1},
                          c \in {"a", "e", "y", "t", "E"}}

InitSyllables ==
    /\ pc = "count_syllables"
    /\ analyzer = "Content"
    /\ page \in [word : SyllableWords(MaxWordLen) \ {""}]
    /\ findings = <<>>
    /\ score = None
    /\ together_api_key = None
    /\ category = None
    /\ finding = None
    /\ result = NoResult
    /\ response = None
    /\ api_key = None
    /\ NoRun

\* count_syllables(word)
CountSyllables ==
    /\ pc = "count_syllables"
    /\ result' = Return(count_syllables(page.word))
    /\ pc' = "counted"
    /\ UNCHANGED <<analyzer, findings, category, finding, contentVars, runVars, response,
                   api_key>>

NextSyllables == CountSyllables

SpecSyllables == InitSyllables /\ [][NextSyllables]_vars

\* n copies of word
Repeat(word, n) == [i \in 1..n |-> word]

\* sum(count_syllables(word) for word in words), summed by halves
RECURSIVE syllable_count(_)
syllable_count(words) ==
    IF words = <<>> THEN 0
    ELSE IF Len(words) = 1 THEN count_syllables(words[1])
    ELSE syllable_count(SubSeq(words, 1, Len(words) \div 2))
           + syllable_count(SubSeq(words, Len(words) \div 2 + 1, Len(words)))

\* a Flesch score with the two coefficients exchanged
flesch_score_swapped(words, sentences, syllables) ==
    IF sentences = 0 \/ words = 0 THEN <<0, 1>>
    ELSE <<206835 * sentences * words - 84600 * words * words
              - 1015 * syllables * sentences,
           1000 * sentences * words>>

\* flesch_score as an exact fraction <<numerator, denominator>>:
\* 206.835 - 1.015 * (words / sentences) - 84.6 * (syllables / words).
\* The float the code computes differs from it by less than 1e-12; where
\* the exact value is a threshold the float is not below it.
flesch_score(words, sentences, syllables) ==
    IF sentences = 0 \/ words = 0 THEN <<0, 1>>
    ELSE <<206835 * sentences * words - 1015 * words * words
              - 84600 * syllables * sentences,
           1000 * sentences * words>>

\* readability_level of a score num / den
readability_level(num, den) ==
    IF num < 30 * den THEN "Very difficult"
    ELSE IF num < 50 * den THEN "Difficult"
    ELSE IF num < 60 * den THEN "Fairly difficult"
    ELSE IF num < 70 * den THEN "Standard"
    ELSE IF num < 80 * den THEN "Fairly easy"
    ELSE IF num < 90 * den THEN "Easy"
    ELSE "Very easy"

\* readability_type of a score num / den
readability_type(num, den) ==
    IF num < 30 * den THEN "error"
    ELSE IF num < 60 * den THEN "warning"
    ELSE "success"

\* f"{num / den:.1f}": the nearest tenth; at a tie the binary value of the
\* float decides, so both neighbours are possible
FormatTenths(num, den) ==
    {(IF num < 0 THEN "-" ELSE "") \o ToString(t \div 10) \o "." \o ToString(t % 10) :
        t \in round(10 * (IF num < 0 THEN -num ELSE num), den)}

\* ContentAnalyzer._check_readability: the findings it may return for a
\* content given by whether it is empty, the number of sentences
\* re.split finds and the words re.findall finds
_check_readability_of(content) ==
    IF content.empty
    THEN {Finding("error", "No readable content found",
              "No readable text content was found on the page.")}
    ELSE LET words == Len(content.words)
             sentences == content.sentences
             syllables == syllable_count(content.words)
             flesch == flesch_score(words, sentences, syllables)
         IN  {Finding(readability_type(flesch[1], flesch[2]),
                      "Readability: " \o readability_level(flesch[1], flesch[2]),
                      "The content has a Flesch Reading Ease score of " \o f \o ". "
                         \o "Average sentences have " \o s \o " words. "
                         \o "Average words have " \o y \o " syllables.") :
                f \in FormatTenths(flesch[1], flesch[2]),
                s \in FormatTenths(words, IF sentences > 1 THEN sentences ELSE 1),
                y \in FormatTenths(syllables, IF words > 1 THEN words ELSE 1)}

\* the contents: none, or some sentences and some of the words "cat" (one
\* syllable) and "readability" (five), and the content of 5 sentences,
\* 100 words and 150 syllables
ReadabilityContents ==
    {[empty |-> TRUE, sentences |-> 0, words |-> <<>>]}
      \cup {[empty |-> FALSE, sentences |-> s,
             words |-> Repeat("cat", a) \o Repeat("Readability", b)] :
               s \in 0..MaxSentences, a \in 0..MaxWordRep, b \in 0..MaxWordRep}
      \cup {[empty |-> FALSE, sentences |-> 5,
             words |-> Repeat("cat", 50) \o Repeat("reading", 50)]}

InitReadability ==
    /\ pc = "_check_readability"
    /\ analyzer = "Content"
    /\ page \in [content : ReadabilityContents]
    /\ findings = <<>>
    /\ score = None
    /\ together_api_key = None
    /\ category = None
    /\ finding = None
    /\ result = NoResult
    /\ response = None
    /\ api_key = None
    /\ NoRun

\* readability_result = self._check_readability(main_content)
CheckReadability ==
    /\ pc = "_check_readability"
    /\ \E f \in _check_readability_of(page.content) : result' = Return(f)
    /\ pc' = "checked"
    /\ UNCHANGED <<analyzer, findings, category, finding, contentVars, runVars, response,
                   api_key>>

NextReadability == CheckReadability

SpecReadability == InitReadability /\ [][NextReadability]_vars

\* the syllables the claim counts in the words of a content
C25_Syllables(words) ==
    LET Count(w) == Cardinality({i \in DOMAIN words : words[i] = w})
    IN  Count("cat") + 2 * Count("reading") + 5 * Count("Readability")

\* 1000 * words * sentences times the Flesch score of the claim
C25_Flesch(c) ==
    206835 * Len(c.words) * c.sentences - 1015 * Len(c.words) * Len(c.words)
       - 84600 * C25_Syllables(c.words) * c.sentences

\* C25: _check_readability gives the Flesch score 206.835 - 1.015 *
\* (words / sentences) - 84.6 * (syllables / words) the severity error below
\* 30, warning from 30 to below 60, success from 60 on; 100 words in 5
\* sentences with 150 syllables score 59.635 (59.6 in the description) and
\* are 'Fairly difficult', a warning.
C25_FleschThresholds ==
    (pc = "checked" /\ page.content.sentences > 0 /\ Len(page.content.words) > 0) =>
        LET c == page.content
            den == 1000 * Len(c.words) * c.sentences
        IN  /\ C25_Flesch(c) < 30 * den => result.value.type = "error"
            /\ (30 * den <= C25_Flesch(c) /\ C25_Flesch(c) < 60 * den)
                  => result.value.type = "warning"
            /\ C25_Flesch(c) >= 60 * den => result.value.type = "success"
            /\ (Len(c.words) = 100 /\ c.sentences = 5 /\ C25_Syllables(c.words) = 150) =>
                  /\ C25_Flesch(c) = 59635 * Len(c.words) * c.sentences
                  /\ result.value.title = "Readability: Fairly difficult"
                  /\ result.value.type = "warning"
                  /\ In("score of 59.6. ", result.value.description)

\* the content of 100 words, 5 sentences and 150 syllables was checked
C25_Witness ==
    /\ pc = "checked"
    /\ Len(page.content.words) = 100
    /\ page.content.sentences = 5
    /\ syllable_count(page.content.words) = 150
    /\ result.value.type = "warning"

\* whether character i of word is a vowel, in either case
C30_Vowel(word, i) ==
    SubSeq(word, i, i) \in {"a", "e", "i", "o", "u", "y", "A", "E", "I", "O", "U", "Y"}

\* the vowel groups of word: a leading vowel, and each vowel after a
\* character that is not a vowel
C30_Groups(word) ==
    Cardinality({i \in 1..Len(word) :
                    C30_Vowel(word, i) /\ (i = 1 \/ ~C30_Vowel(word, i - 1))})

\* C30: count_syllables returns at least 1 for every word: 1 for a word of
\* at most three characters, otherwise the number of vowel groups, less one
\* when the word ends in e, and 1 when that is below 1.
C30_SyllablesAtLeastOne ==
    pc = "counted" =>
        LET word == page.word
            n == C30_Groups(word)
                   - (IF SubSeq(word, Len(word), Len(word)) \in {"e", "E"} THEN 1 ELSE 0)
        IN  /\ result.value >= 1
            /\ Len(word) <= 3 => result.value = 1
            /\ Len(word) > 3 => result.value = (IF n < 1 THEN 1 ELSE n)

\* a word of more than three letters with two vowel groups and a final e
\* was counted as one syllable
C30_Witness ==
    /\ pc = "counted"
    /\ Len(page.word) > 3
    /\ C30_Groups(page.word) = 2
    /\ SubSeq(page.word, Len(page.word), Len(page.word)) = "e"
    /\ result.value = 1

----------------------------------------------------------------------------
(* SpecShared: run_analysis with the results of the analyzers of the       *)
(* document computed from the tree they are given.  page.tree keeps the    *)
(* tree as the scraper returned it.                                        *)

\* AccessibilityAnalyzer._check_landmarks on a tree without role attributes
_check_landmarks(tree) ==
    LET landmarks == tree \cap {"header", "nav", "main", "footer", "aside", "section",
                                 "article"}
        missing_landmarks ==
            (IF "header" \in landmarks THEN <<>> ELSE <<"header">>)
              \o (IF "nav" \in landmarks THEN <<>> ELSE <<"navigation">>)
              \o (IF "main" \in landmarks THEN <<>> ELSE <<"main content">>)
              \o (IF "footer" \in landmarks THEN <<>> ELSE <<"footer">>)
    IN  IF landmarks = {}
        THEN Finding("warning", "No landmarks found",
                 "The page doesn't use HTML5 structural elements or ARIA landmarks, which help screen reader users navigate.")
        ELSE IF missing_landmarks # <<>>
        THEN Finding("warning", "Missing key landmarks",
                 "The page is missing the following landmarks: " \o JoinComma(missing_landmarks)
                    \o ". These help screen reader users navigate the page.")
        ELSE Finding("success", "Good landmark structure",
                 "The page uses " \o ToString(Cardinality(landmarks))
                    \o " landmarks to structure content, including all key navigation points.")

\* DesignAnalyzer._check_layout_structure on a tree whose div elements have
\* no class or id of a section
_check_layout_structure(tree) ==
    LET structure_count ==
            (IF "header" \in tree THEN 1 ELSE 0)
              + (IF "main" \in tree \/ "article" \in tree THEN 1 ELSE 0)
              + (IF "footer" \in tree THEN 1 ELSE 0)
        semantic_elements ==
            tree \cap {"header", "nav", "main", "section", "article", "aside", "footer"}
        total_sections == Cardinality(semantic_elements)
    IN  IF structure_count < 2
        THEN Finding("warning", "Poor page structure",
                 "The page lacks clear structural elements (header, main content, footer), which can confuse users.")
        ELSE IF total_sections < 3
        THEN Finding("warning", "Limited content structure",
                 "The page has basic structure but lacks clear content sections, which can make content hard to scan.")
        ELSE IF Cardinality(semantic_elements) > 5
        THEN Finding("success", "Good semantic structure",
                 "The page uses " \o ToString(Cardinality(semantic_elements))
                    \o " semantic HTML5 elements which creates clear structure.")
        ELSE Finding("success", "Clear page structure",
                 "The page has a clear structure with " \o ToString(total_sections)
                    \o " identifiable sections.")

\* SEOAnalyzer._check_mobile_friendly on a tree with a viewport meta tag of
\* width=device-width, no stylesheet of a framework and no responsive class
\* name, whose style elements hold a media query
_check_mobile_friendly(tree) ==
    IF "style" \in tree
    THEN Finding("success", "Mobile-friendly indicators found",
             "Your page appears to be mobile-friendly based on technical indicators.")
           @@ [details |-> "\n- Uses CSS media queries"]
    ELSE Finding("warning", "Limited mobile-friendly indicators",
             "Found viewport meta tag but limited evidence of responsive design. Consider implementing responsive design techniques.")

\* the findings of analyze() of the analyzer name that depend on the
\* elements of the tree it is given
DocumentFindings(name, tree) ==
    CASE name = "SEO" -> <<_check_mobile_friendly(tree)>>
      [] name = "Accessibility" -> <<_check_landmarks(tree)>>
      [] name = "Design & UX" -> <<_check_layout_structure(tree)>>
      [] OTHER -> <<>>

InitShared ==
    /\ pc = "construct"
    /\ enabled \in SUBSET AnalyzerNames
    /\ soup \in Pages
    /\ page = [tree |-> soup]
    /\ analyzers_to_run = <<>>
    /\ results = EmptyDict
    /\ report = None
    /\ ui = {}
    /\ analyzer = None
    /\ findings = <<>>
    /\ category = None
    /\ finding = None
    /\ result = NoResult
    /\ together_api_key = None
    /\ score = None
    /\ response = None
    /\ api_key = None

\* the analyzers enabled are constructed and listed, in the fixed order
ConstructAnalyzers ==
    /\ pc = "construct"
    /\ analyzers_to_run' = Restrict(AnalyzerOrder, enabled)
    /\ soup' = Constructed(soup, enabled)
    /\ pc' = IF enabled = {} THEN "done" ELSE "analyze"
    /\ UNCHANGED <<analyzer, findings, category, finding, result, contentVars, enabled,
                   results, report, ui, response, api_key>>

\* one iteration of the loop: results[name] = analyzer.analyze()
AnalyzeDocument ==
    /\ pc = "analyze"
    /\ results' = (Current :> [findings |-> DocumentFindings(Current, soup)]) @@ results
    /\ soup' = Analyzed(soup, Current)
    /\ pc' = IF Cardinality(DOMAIN results) + 1 = Len(analyzers_to_run)
             THEN "done" ELSE "analyze"
    /\ UNCHANGED <<analyzer, findings, category, finding, result, contentVars, enabled,
                   analyzers_to_run, report, ui, response, api_key>>

NextShared ==
    \/ ConstructAnalyzers
    \/ AnalyzeDocument

SpecShared == InitShared /\ [][NextShared]_vars

\* C26: the results of SEO, Accessibility and Design & UX in a run are the
\* results they have in the run on the same fetched page with Content and
\* AI Insights not selected.
C26_IndependentOfSelection ==
    pc = "done" =>
        \A name \in {"SEO", "Accessibility", "Design & UX"} \cap DOMAIN results :
            results[name].findings
              = DocumentFindings(name,
                    Constructed(page.tree, enabled \ {"Content", "AI Insights"}))

----------------------------------------------------------------------------
(* AIAnalyzer.analyze on the heuristic path (SpecAi).                      *)

\* C27: without an API key, and with a key when the call of the language
\* model fails, AIAnalyzer.analyze returns a result for every document; its
\* recommendations are at most 7, have pairwise distinct titles and are in
\* the order High, Medium, Low.
C27_BasicAnalysisReturns ==
    (/\ analyzer = "AI Insights"
     /\ pc \in {"returned", "raised"}
     /\ IF together_api_key = None THEN TRUE
        ELSE IF response.kind = "exception" THEN TRUE
        ELSE response.status_code # 200) =>
        /\ result.kind = "return"
        /\ LET recs == result.value.recommendations
           IN  /\ Len(recs) <= 7
               /\ \A i, j \in DOMAIN recs :
                      i < j => /\ recs[i].title # recs[j].title
                               /\ PriorityRank(recs[i].priority)
                                    <= PriorityRank(recs[j].priority)

----------------------------------------------------------------------------
(* SpecResponseTime: PerformanceAnalyzer._check_response_time on every     *)
(* latency up to MaxElapsed hundredths of a second and on a request that   *)
(* raises.                                                                 *)

\* the longest latency measured, in hundredths of a second
MaxElapsed == 350

\* what requests.get(self.url, timeout=10) yields, with the time it took
ResponseTimes ==
    {[kind |-> "response", elapsed |-> t] : t \in 0..MaxElapsed}
      \cup {[kind |-> "exception", exc |-> e] : e \in {"Timeout", "ConnectionError"}}

InitResponseTime ==
    /\ pc = "_check_response_time"
    /\ analyzer = "Performance"
    /\ response \in ResponseTimes
    /\ page = None
    /\ findings = <<>>
    /\ score = None
    /\ together_api_key = None
    /\ category = None
    /\ finding = None
    /\ result = NoResult
    /\ api_key = None
    /\ NoRun

\* findings["Speed"].append(self._check_response_time())
CheckResponseTime ==
    /\ pc = "_check_response_time"
    /\ finding' = _check_response_time(response)
    /\ pc' = "checked"
    /\ UNCHANGED <<analyzer, findings, category, result, contentVars, runVars, response,
                   api_key>>

NextResponseTime == CheckResponseTime

SpecResponseTime == InitResponseTime /\ [][NextResponseTime]_vars

\* C28: _check_response_time returns success for a latency below 1.5 s,
\* warning from 1.5 s to below 3 s, and error from 3 s on and when the
\* request times out or fails.
C28_ResponseTimeBuckets ==
    (pc = "checked" /\ analyzer = "Performance") =>
        finding.type =
            IF response.kind = "exception" THEN "error"
            ELSE IF 2 * response.elapsed < 3 * 100 THEN "success"
            ELSE IF response.elapsed < 3 * 100 THEN "warning"
            ELSE "error"

\* a latency of exactly 1.5 s has been reported as a warning
C28_Witness ==
    /\ pc = "checked"
    /\ analyzer = "Performance"
    /\ response.kind = "response"
    /\ response.elapsed = 150
    /\ finding.type = "warning"
    /\ finding.title = "Moderate response time: 1.50s"

----------------------------------------------------------------------------
(* SpecWeight: PerformanceAnalyzer._estimate_page_weight, one HEAD request *)
(* per step.  Sizes are whole even numbers of KB, so that the estimate is  *)
(* a whole number of KB.                                                   *)

\* the most resources a page references
MaxResources == 12

\* what requests.get yields: an exception, or the page with the size of its
\* HTML in KB and the number of resources the three patterns find in it
WeightResponses ==
    {[kind |-> "exception", exc |-> "ConnectionError"]}
      \cup [kind : {"response"}, html_kb : {20, 1400}, referenced : 0..MaxResources]

\* what requests.head yields: an exception, a response without the
\* content-length header, or one with it (in KB)
HeadResponses ==
    {[kind |-> "exception"], [kind |-> "response", headers |-> EmptyDict],
     [kind |-> "response", headers |-> "content-length" :> 100]}

InitWeight ==
    /\ pc = "_estimate_page_weight"
    /\ analyzer = "Performance"
    /\ response \in WeightResponses
    /\ page = None
    /\ findings = <<>>
    /\ score = None
    /\ together_api_key = None
    /\ category = None
    /\ finding = None
    /\ result = NoResult
    /\ api_key = None
    /\ NoRun

\* the page is fetched, its resources listed and the list cut to ten:
\* resource_urls = resource_urls[:10]; total_size = html_size;
\* resource_count = 1
WeightGet ==
    /\ pc = "_estimate_page_weight"
    /\ IF response.kind = "exception"
       THEN /\ finding' = _estimate_page_weight(response)
            /\ page' = page
            /\ pc' = "failed"
       ELSE /\ page' = [resource_urls |-> Min(response.referenced, 10),
                        total_kb |-> response.html_kb,
                        resource_count |-> 1,
                        head_requests |-> 0]
            /\ finding' = finding
            /\ pc' = "head"
    /\ UNCHANGED <<analyzer, findings, category, result, together_api_key, score, runVars,
                   response, api_key>>

\* one iteration of "for url in resource_urls"
WeightHead ==
    /\ pc = "head"
    /\ page.head_requests < page.resource_urls
    /\ \E head_response \in HeadResponses :
          page' = IF head_response.kind = "response"
                     /\ "content-length" \in DOMAIN head_response.headers
                  THEN [page EXCEPT !.head_requests = @ + 1,
                                    !.total_kb = @ + head_response.headers["content-length"],
                                    !.resource_count = @ + 1]
                  ELSE [page EXCEPT !.head_requests = @ + 1]
    /\ UNCHANGED <<pc, analyzer, findings, category, finding, result, together_api_key,
                   score, runVars, response, api_key>>

\* estimated_kb after the loop
estimated_kb(resource_urls, total_kb) ==
    IF resource_urls < 10 THEN total_kb ELSE (total_kb * 3) \div 2

\* the estimate is made and evaluated
WeightEvaluate ==
    /\ pc = "head"
    /\ page.head_requests = page.resource_urls
    /\ finding' = _estimate_page_weight(
                      [kind |-> "response",
                       estimated_kb |-> estimated_kb(page.resource_urls, page.total_kb),
                       resource_count |-> page.resource_count])
    /\ score' = estimated_kb(page.resource_urls, page.total_kb)
    /\ pc' = "estimated"
    /\ UNCHANGED <<analyzer, findings, category, result, page, together_api_key, runVars,
                   response, api_key>>

NextWeight ==
    \/ WeightGet
    \/ WeightHead
    \/ WeightEvaluate

SpecWeight == InitWeight /\ [][NextWeight]_vars

\* C29: _estimate_page_weight makes at most 10 HEAD requests, and the
\* estimate is 1.5 times the total measured exactly when the page references
\* more than 10 resources; with 10 or fewer it is the total measured.
C29_ExtrapolatedBeyondTen ==
    (analyzer = "Performance" /\ pc \in {"head", "estimated"}) =>
        /\ page.head_requests <= 10
        /\ pc = "estimated" =>
              IF response.referenced > 10
              THEN 2 * score = 3 * page.total_kb
              ELSE score = page.total_kb

====
